---- MODULE Spec2Model ----
(***************************************************************************)
(* Verification model of the tenex local development orchestrator.         *)
(*                                                                         *)
(*   SpecDev  : templates/default/scripts/dev.mjs, main()                   *)
(*                                                                         *)
(*   SpecAuth : src/commands/add-auth.ts, withConvexDevRunning()            *)
(*   SpecSync : src/commands/add-auth.ts, setEnvVars(), runConvexEnvSet()   *)
(*   SpecEns  : templates/default/scripts/ensure-convex-env.mjs, main()     *)
(*   SpecFile : src/lib/dotenv.ts upsertDotenvVar() and the setVar() of      *)
(*              dev.mjs updateEnvLocal(), on file contents given as text     *)
(*   SpecPort : templates/default/scripts/dev.mjs, findAvailablePort()       *)
(*   SpecProv : dev.mjs main() up to the launch with its file watcher, and   *)
(*              add-auth.ts ensureDotEnvLocal(), on one environment file     *)
(*   SpecStream : add-auth.ts attachConvexDevStream() and the stdout        *)
(*              handler of dev.mjs main(), on one backend output text        *)
(*   SpecNew  : the new command, cmdNew() with sanitizeProjectName()         *)
(*   SpecRace : dev.mjs updateEnvLocal() and add-auth.ts                     *)
(*              ensureDotEnvLocal() as two read-modify-write file writers    *)
(*   FairSpecObserve : add-auth.ts observeConvexDevOutput() with its timer   *)
(*   SpecTee  : dev.mjs handleConvexData() on the bytes of the output       *)
(*                                                                         *)
(* Every subsystem has its own specification; the variables of the other   *)
(* subsystems stay at their idle values.                                   *)
(***************************************************************************)
EXTENDS Naturals, Integers, Sequences, FiniteSets, TLC

VARIABLES
    \* ---- dev.mjs main() ----
    pc,            \* position of main(): start, primed, waiting, resolved, exited
    vite,          \* app-server child: [st, exitCode, signalCode]
    convexBg,      \* backend child:    [st, exitCode, signalCode]
    sent,          \* signals delivered by the coordinator, per child
    ens,           \* [envEnsurerSpawned, convexEnvEnsurer, spawns]
    convexReady,   \* dev.mjs:236
    timer,         \* the 15 s fallback timer: unset, armed, fired
    finished,      \* dev.mjs:278
    envWatcher,    \* none, open, closed
    coordExit,     \* exit code of the coordinator process, NoCode while it lives
    firstExit,     \* history: first supervised process to exit, with its code
    readyPrinted,  \* history: the backend printed a ready line on stdout
    chunks,        \* number of stdout chunks delivered so far
    interrupts,    \* number of SIGINT/SIGTERM received so far
    priming,       \* history: the priming run, [st, exitCode]
    \* ---- add-auth.ts withConvexDevRunning() ----
    apc,           \* init, awaiting, fn, stopping, done, crashed
    platform,      \* process.platform: posix or win32
    child,         \* the convex dev child: [st, exitCode, signalCode]
    probe,         \* waitForTcpFromUrl: idle, polling, ok, exitedEarly, timeout
    observer,      \* observeConvexDevOutput: idle, pending, ready, notReady
    settledBy,     \* history: what called finish() first: line, timeout, exit
    polls,         \* iterations of the probe loop so far
    fnCalled,      \* the callback fn has been invoked
    pending,       \* the value or error the try block ended with
    stop,          \* stopChildProcess: 0 before it runs, i while it waits
                   \* after its i-th signal, Returned when it has returned
    kills,         \* history: killProcessTree calls, in order
    waited,        \* history: milliseconds slept in elapsed wait windows
    atStop,        \* history: the child handle as stopChildProcess found it
    exitInWindow,  \* history: an 'exit' event ended a wait window
    result,        \* what withConvexDevRunning settled with
    \* ---- add-auth.ts setEnvVars() ----
    spc,           \* exists, set, recheck, done
    cur,           \* index in VarOrder of the variable being ensured
    store,         \* the remote store: absent, old or new per variable
    attempt,       \* loop counter of runConvexEnvSet
    lastOutput,    \* combined stdout/stderr of the last set command
    hist,          \* history: the set attempts made, per variable
    listFailed,    \* history: an env list command exited non-zero
    varResult,     \* none, skipped, ok, SetFailed, CommandFailed per variable
    raised,        \* the error setEnvVars rejected with: [kind, text]
    \* ---- ensure-convex-env.mjs main() ----
    ephase,        \* first (awaiting the first tick), polling, exited
    interval,      \* the const interval: tdz, set, cleared
    stopped,       \* ensure-convex-env.mjs:153
    ticks,         \* the tick() calls in flight, per slot
    rstore,        \* the remote store: a value id per variable
    helperExit,    \* exit code of the helper, NoCode while it lives or if killed
    overwritten,   \* history: variables for which a set command was issued
                   \* although they were present when checked
    \* ---- the environment file .env.local ----
    envFile,       \* contents of the file: a sequence of text tokens
    lastUp,        \* history: the last write, [op, key, value, before]
    ups,           \* number of writes so far
    \* ---- dev.mjs findAvailablePort(), provisioning, the file watcher ----
    net,           \* the loopback interfaces: [busy4, busy6, v4, v6, eph]
    portAttempts,  \* the maxAttempts argument of findAvailablePort
    procEnv,       \* process.env: [VITE_CONVEX_URL, CONVEX_SITE_URL]
    port,          \* what findAvailablePort settled with: [st, port]
    lastRpcUrl,    \* dev.mjs:127, the watcher's last seen VITE_CONVEX_URL
    provWrite,     \* history: the file before and after main's first write
    derived,       \* history: the last site URL derivation, [by, rpc, site]
    edits,         \* number of edits made to the file by other programs
    \* ---- the backend's stdout and its two readers ----
    stdoutText,    \* the text the backend writes to its stdout
    apos,          \* tokens of stdoutText add-auth's 'data' listener has received
    prev,          \* history: apos before the last chunk
    buffer,        \* add-auth.ts:298, stdoutBuffer.value
    lineLog,       \* history: the lines passed to onLine, in order
    dpos,          \* tokens of stdoutText dev.mjs handleConvexData has received
    teed,          \* the bytes dev.mjs has written to its own stdout
    \* ---- commands/new (src/unnamed/part_002) cmdNew() ----
    npc,           \* start, select, scaffold, addAuth, returned
    projectName,   \* the variable projectName: a text of characters
    typed,         \* history: the name as given by the user
    dirExists,     \* projectDir exists on disk
    choice,        \* history: what the overwrite prompt returned
    removed,       \* history: removeDir(projectDir) was called
    scaffolded,    \* history: the scaffolding command was run
    authRan,       \* history: addAuth(projectDir) was called
    newExit,       \* process.exitCode, NoCode while unset
    \* ---- two programs updating .env.local at the same time ----
    rmw            \* per writer: [pc, snap], snap being the contents it read

devVars == <<pc, vite, convexBg, sent, ens, convexReady, timer, finished,
             envWatcher, coordExit, firstExit, readyPrinted, chunks, interrupts,
             priming>>

\* ---- add-auth.ts withConvexDevRunning() ----
authVars == <<apc, platform, child, probe, observer, settledBy, polls, fnCalled, pending,
              stop, kills, waited, atStop, exitInWindow, result>>

\* ---- add-auth.ts setEnvVars() ----
syncVars == <<spc, cur, store, attempt, lastOutput, hist, listFailed, varResult,
              raised>>

\* ---- ensure-convex-env.mjs main() ----
ensVars == <<ephase, interval, stopped, ticks, rstore, helperExit, overwritten>>

fileVars == <<envFile, lastUp, ups>>

provVars == <<net, portAttempts, procEnv, port, lastRpcUrl, provWrite, derived, edits>>

streamVars == <<stdoutText, apos, prev, buffer, lineLog, dpos, teed>>

newVars == <<npc, projectName, typed, dirExists, choice, removed, scaffolded,
             authRan, newExit>>

raceVars == <<rmw>>

\* The variable groups the file and provisioning actions never touch.
others == <<streamVars, newVars, raceVars>>

vars == <<devVars, authVars, syncVars, ensVars, fileVars, provVars, others>>

notDev == <<authVars, syncVars, ensVars, fileVars, provVars, others>>
notAuth == <<devVars, syncVars, ensVars, fileVars, provVars, others>>
notSync == <<devVars, authVars, ensVars, fileVars, provVars, others>>
notEns == <<devVars, authVars, syncVars, fileVars, provVars, others>>
notFile == <<devVars, authVars, syncVars, ensVars, provVars, others>>

\* child.exitCode and child.signalCode are null until node sets them.
NoCode == -1
NoSignal == "null"
NoExit == [who |-> "none", exitCode |-> NoCode, signalCode |-> NoSignal]

\* The priming run has not exited yet.
NoPriming == [st |-> "none", exitCode |-> NoCode]

\* ---- bounds -------------------------------------------------------------
MaxChunks == 2
MaxInterrupts == 1
MaxPolls == 2
MaxTicks == 2
MaxFileLen == 5
MaxUpserts == 2
MaxEdits == 1
MaxPortAttempts == 3
MaxOutLen == 4
MaxNameLen == 4

\* ---- inputs -------------------------------------------------------------
ExitCodes == {0, 1, 2}
ExitSignals == {"SIGINT"}
SpawnOutcomes == {"ok", "throw", "error"}
Platforms == {"posix", "win32"}

\* add-auth.ts:125-143.  The variables setEnvVars ensures, in its order.
VarOrder == <<"BETTER_AUTH_SECRET", "SITE_URL">>
Names == {VarOrder[i] : i \in 1..Len(VarOrder)}

\* What a convex env set command can print (stdout and stderr combined).
Outputs == {"Successfully set", "Hit an error while pushing", "RaceDetected"}

\* What runCapture collects from the two streams of a set command, each
\* text being the sequence of its messages: the success message or nothing
\* on stdout, an error message or nothing on stderr.
CapturedStdout == {<<>>, <<"Successfully set">>}
CapturedStderr == {<<>>} \cup {<<m>> : m \in Outputs \ {"Successfully set"}}

\* No error was raised.
NoError == [kind |-> "none", text |-> <<>>]

\* Values a variable of the remote store can hold when the helper starts:
\* none, an ordinary value, or a value whose text contains "error".
StoredValues == {"absent", "plain", "errorish"}

\* The text of a value, as the pieces the helper's pattern looks at.
ValueText(v) ==
    CASE v = "absent" -> <<>>
      [] v = "plain" -> <<"http://localhost:3000">>
      [] v = "errorish" -> <<"https://app.example.com/", "error", "-pages">>
      [] v = "new" -> <<"http://localhost:3002">>

\* A ChildProcess handle as node reports it.
NoChild == [st |-> "none", exitCode |-> NoCode, signalCode |-> NoSignal]
RunningChild == [st |-> "running", exitCode |-> NoCode, signalCode |-> NoSignal]
FailedChild == [st |-> "failed", exitCode |-> NoCode, signalCode |-> NoSignal]
ExitedChild(code, sig) == [st |-> "exited", exitCode |-> code, signalCode |-> sig]

\* The (code, signal) pairs node passes to an 'exit' listener.
ExitEvents ==
    {<<c, NoSignal>> : c \in ExitCodes} \cup {<<NoCode, s>> : s \in ExitSignals}

(***************************************************************************)
(* Text of the environment file: src/lib/dotenv.ts, dev.mjs updateEnvLocal *)
(*                                                                         *)
(* A text is a sequence of tokens.  "\r" and "\n" are the two line-ending  *)
(* characters, " " is a blank, "=" and "#" are themselves, and every other *)
(* token is a run of characters without blanks, line endings, "=" or "#".  *)
(***************************************************************************)

CR == "\r"
LF == "\n"
EQ == "="

\* String.prototype.startsWith on texts.
startsWith(text, prefix) ==
    /\ Len(prefix) <= Len(text)
    /\ SubSeq(text, 1, Len(prefix)) = prefix

\* dotenv.ts:26, dev.mjs:75.  contents.split(/\r?\n/): "\r\n" and "\n"
\* separate lines; a "\r" that is not followed by "\n" stays in its line.
RECURSIVE split(_)
split(text) ==
    IF text = <<>> THEN << <<>> >>
    ELSE IF text[1] = LF THEN << <<>> >> \o split(Tail(text))
    ELSE IF Len(text) >= 2 /\ text[1] = CR /\ text[2] = LF
         THEN << <<>> >> \o split(SubSeq(text, 3, Len(text)))
    ELSE LET rest == split(Tail(text))
         IN  << <<text[1]>> \o rest[1] >> \o Tail(rest)

\* dotenv.ts:26, dev.mjs:75.  An empty string has no lines at all.
readLines(contents) == IF contents = <<>> THEN <<>> ELSE split(contents)

\* dotenv.ts:41, dev.mjs:122.  lines.join('\n').
RECURSIVE join(_)
join(lines) ==
    IF lines = <<>> THEN <<>>
    ELSE IF Len(lines) = 1 THEN lines[1]
    ELSE lines[1] \o <<LF>> \o join(Tail(lines))

\* dotenv.ts:41.  replace(/\n+$/, '\n'): a run of "\n" at the very end of
\* the text becomes one "\n"; a text that does not end in "\n" is unchanged.
RECURSIVE stripTrailingNewlines(_)
stripTrailingNewlines(text) ==
    IF text # <<>> /\ text[Len(text)] = LF
    THEN stripTrailingNewlines(SubSeq(text, 1, Len(text) - 1))
    ELSE text

normalizeTrailingNewlines(text) ==
    IF text # <<>> /\ text[Len(text)] = LF
    THEN stripTrailingNewlines(text) \o <<LF>>
    ELSE text

\* dotenv.ts:29-40, dev.mjs:101-115.  Replace the first line that starts
\* with "key=", or append the new line after a blank separator line.
FirstMatch(lines, key) ==
    LET hits == {i \in 1..Len(lines) : startsWith(lines[i], key \o <<EQ>>)}
    IN  IF hits = {} THEN 0 ELSE CHOOSE i \in hits : \A j \in hits : i <= j

setVar(lines, name, value) ==
    LET newLine == name \o <<EQ>> \o value
        i == FirstMatch(lines, name)
    IN  IF i # 0 THEN [lines EXCEPT ![i] = newLine]
        ELSE IF lines # <<>> /\ lines[Len(lines)] # <<>>
             THEN lines \o << <<>>, newLine >>
             ELSE Append(lines, newLine)

\* dotenv.ts:21-42 (and its copy, projectName.ts:38-61).
upsertDotenvVar(contents, key, value) ==
    normalizeTrailingNewlines(join(setVar(readLines(contents), key, value)))

\* dev.mjs:79-83, 133-137.  The value of the first line that starts with
\* "name=", or NoValue (undefined).
NoValue == <<"undefined", "undefined">>

getVar(lines, name) ==
    LET i == FirstMatch(lines, name)
    IN  IF i = 0 THEN NoValue
        ELSE SubSeq(lines[i], Len(name) + 2, Len(lines[i]))

\* String.prototype.trim on texts: blanks and line-ending characters.
IsSpace(tok) == tok \in {" ", CR, LF}

RECURSIVE trimStart(_)
trimStart(text) ==
    IF text # <<>> /\ IsSpace(text[1]) THEN trimStart(Tail(text)) ELSE text

RECURSIVE trimEnd(_)
trimEnd(text) ==
    IF text # <<>> /\ IsSpace(text[Len(text)])
    THEN trimEnd(SubSeq(text, 1, Len(text) - 1))
    ELSE text

trim(text) == trimEnd(trimStart(text))

\* String.prototype.indexOf('='), 1-based; 0 when there is none.
indexOfEq(text) ==
    LET hits == {i \in 1..Len(text) : text[i] = EQ}
    IN  IF hits = {} THEN 0 ELSE CHOOSE i \in hits : \A j \in hits : i <= j

\* dotenv.ts:3-16.  What one line contributes to parseDotenv: nothing, or
\* a key and a value (quote stripping is left out: no token is a quote).
NoEntry == [key |-> <<>>, value |-> <<>>]

parseLine(line) ==
    LET trimmed == trim(line)
        idx == indexOfEq(trimmed)
    IN  IF trimmed = <<>> \/ trimmed[1] = "#" \/ idx = 0 THEN NoEntry
        ELSE [key |-> trim(SubSeq(trimmed, 1, idx - 1)),
              value |-> trim(SubSeq(trimmed, idx + 1, Len(trimmed)))]

\* dotenv.ts:1-19.  parseDotenv(contents)[key]: the last line that defines
\* the key wins; NoValue when no line defines it.
DefiningLines(contents, key) ==
    LET lines == split(contents)
    IN  {i \in 1..Len(lines) : key # <<>> /\ parseLine(lines[i]).key = key}

parseDotenv(contents, key) ==
    LET lines == split(contents)
        defs == DefiningLines(contents, key)
    IN  IF defs = {} THEN NoValue
        ELSE parseLine(lines[CHOOSE i \in defs : \A j \in defs : j <= i]).value

(***************************************************************************)
(* URLs: new URL(), url.port, url.hostname, url.toString()                 *)
(***************************************************************************)

\* url.port === '' : the URL has no explicit port.
NoPort == -1

\* The largest port the URL port setter accepts.
MaxPort == 65535

\* add-auth.ts:95-100, dev.mjs:92.
getDefaultPort(scheme) == IF scheme = "https" THEN 443 ELSE 80

Schemes == {"http", "https"}
LocalHost == [label |-> "127.0.0.1", suffix |-> ""]
CloudHost == [label |-> "happy-animal-123", suffix |-> ".convex.cloud"]
Hosts == {LocalHost, CloudHost}
RpcPorts == {79, 442, 3212, MaxPort}

\* The URLs as they are written in the file or in the process environment:
\* scheme://host[:port][base][/].
UrlForms ==
    [scheme : Schemes, host : Hosts, port : RpcPorts \cup {NoPort},
     base : {"", "/api"}, slash : BOOLEAN]

UrlText(u) ==
    u.scheme \o "://" \o u.host.label \o u.host.suffix
    \o (IF u.port = NoPort THEN "" ELSE ":" \o ToString(u.port))
    \o u.base \o (IF u.slash THEN "/" ELSE "")

\* A string that new URL() rejects.
NotAUrl == "not a url"

InvalidUrl ==
    [ok |-> FALSE, scheme |-> "", host |-> LocalHost, port |-> NoPort,
     base |-> "", slash |-> FALSE]

\* new URL(text): blanks around the string are dropped, the scheme's
\* default port is dropped, an empty path becomes "/".
ParseUrl(text) ==
    LET t == trim(text)
        forms == IF Len(t) = 1 THEN {u \in UrlForms : UrlText(u) = t[1]} ELSE {}
    IN  IF forms = {} THEN InvalidUrl
        ELSE LET u == CHOOSE f \in forms : TRUE
             IN  [ok |-> TRUE, scheme |-> u.scheme, host |-> u.host,
                  port |-> IF u.port = getDefaultPort(u.scheme) THEN NoPort
                           ELSE u.port,
                  base |-> u.base,
                  slash |-> u.slash \/ u.base = ""]

\* url.port = String(n): a number above MaxPort is ignored, the scheme's
\* default port is stored as "no port".
SetPort(u, n) ==
    IF n > MaxPort THEN u
    ELSE IF n = getDefaultPort(u.scheme) THEN [u EXCEPT !.port = NoPort]
    ELSE [u EXCEPT !.port = n]

\* url.toString().replace(/\/$/, '') as a text of one token.
HrefNoSlash(u) == << UrlText([u EXCEPT !.slash = FALSE]) >>

\* dev.mjs:92, add-auth.ts:111.
basePort(u) == IF u.port # NoPort THEN u.port ELSE getDefaultPort(u.scheme)

\* add-auth.ts:102-122.  NoValue stands for undefined.
deriveConvexSiteUrl(convexUrl) ==
    LET url == ParseUrl(convexUrl)
    IN  IF ~url.ok THEN NoValue
        ELSE IF url.host.suffix = ".convex.cloud"
             THEN HrefNoSlash([url EXCEPT !.host.suffix = ".convex.site"])
        ELSE HrefNoSlash(SetPort(url, basePort(url) + 1))

\* A string is truthy when it is neither undefined nor empty.
truthy(text) == text # NoValue /\ text # <<>>

\* process.env without VITE_CONVEX_URL and CONVEX_SITE_URL.
DefaultEnv == [VITE_CONVEX_URL |-> NoValue, CONVEX_SITE_URL |-> NoValue]

\* dev.mjs:84-99.  env is process.env.
convexRpcUrl(lines, env) ==
    IF truthy(getVar(lines, <<"VITE_CONVEX_URL">>))
    THEN getVar(lines, <<"VITE_CONVEX_URL">>)
    ELSE IF truthy(env.VITE_CONVEX_URL) THEN env.VITE_CONVEX_URL
    ELSE <<"http://127.0.0.1:3212">>

convexSiteUrl(lines, env) ==
    IF truthy(env.CONVEX_SITE_URL) THEN env.CONVEX_SITE_URL
    ELSE LET url == ParseUrl(convexRpcUrl(lines, env))
         IN  IF ~url.ok THEN <<"http://127.0.0.1:3211">>
             ELSE HrefNoSlash(SetPort(url, basePort(url) + 1))

\* dev.mjs:66-124.  The contents updateEnvLocal writes.
updateEnvLocal(contents, appSiteUrl, env) ==
    LET lines == readLines(contents)
        l1 == setVar(lines, <<"SITE_URL">>, appSiteUrl)
        l2 == setVar(l1, <<"VITE_CONVEX_SITE_URL">>, convexSiteUrl(lines, env))
    IN  join(l2)

\* add-auth.ts:59-93.  What ensureDotEnvLocal does to the contents of an
\* existing file: it throws, or writes next and returns the two URLs.
ensureDotEnvLocal(raw) ==
    LET rpcUrl == parseDotenv(raw, <<"VITE_CONVEX_URL">>)
        explicit == parseDotenv(raw, <<"VITE_CONVEX_SITE_URL">>)
        site == IF explicit # NoValue THEN explicit
                ELSE deriveConvexSiteUrl(rpcUrl)
        envSiteUrl == parseDotenv(raw, <<"VITE_SITE_URL">>)
        siteUrl == IF envSiteUrl # NoValue THEN envSiteUrl
                   ELSE <<"http://localhost:3000">>
        n1 == upsertDotenvVar(raw, <<"VITE_CONVEX_SITE_URL">>, site)
        n2 == IF ~truthy(envSiteUrl)
              THEN upsertDotenvVar(n1, <<"VITE_SITE_URL">>, siteUrl)
              ELSE n1
    IN  IF ~truthy(rpcUrl) THEN [threw |-> "NoRpcUrl", next |-> raw]
        ELSE IF ~truthy(site) THEN [threw |-> "NoSiteUrl", next |-> raw]
        ELSE [threw |-> "no", next |-> n2]

(***************************************************************************)
(* dev.mjs: findAvailablePort                                              *)
(***************************************************************************)

\* dev.mjs:18.
hostsToCheck == <<"127.0.0.1", "::1">>

\* dev.mjs:20-36.  One bind attempt.  net.busy4 and net.busy6 are the ports
\* whose bind fails on that loopback address (EADDRINUSE or any other
\* error); net.v4 and net.v6 tell whether the address family exists.
tryBind(n, p, host) ==
    IF host = "127.0.0.1"
    THEN IF ~n.v4 THEN "skip" ELSE IF p \in n.busy4 THEN "in_use" ELSE "ok"
    ELSE IF ~n.v6 THEN "skip" ELSE IF p \in n.busy6 THEN "in_use" ELSE "ok"

\* dev.mjs:38-44.
isFree_V4Only(n, p) == tryBind(n, p, hostsToCheck[1]) # "in_use"

isFree(n, p) ==
    \A h \in 1..Len(hostsToCheck) : tryBind(n, p, hostsToCheck[h]) # "in_use"

\* dev.mjs:46-49.  The candidate loop; NoPort when it runs to its end.
RECURSIVE scanPorts(_, _, _, _)
scanPorts(n, startPort, maxTries, i) ==
    IF i >= maxTries THEN NoPort
    ELSE IF isFree(n, startPort + i) THEN startPort + i
    ELSE scanPorts(n, startPort, maxTries, i + 1)

PortUnset == [st |-> "unset", port |-> NoPort]
PortRejected == [st |-> "rejected", port |-> NoPort]

\* dev.mjs:16-64.  net.eph is the port the OS hands out for listen(0), or
\* NoPort when that listen reports an error.
findAvailablePort(n, startPort, maxTries) ==
    LET found == scanPorts(n, startPort, maxTries, 0)
    IN  IF found # NoPort THEN [st |-> "ok", port |-> found]
        ELSE IF n.eph = NoPort \/ ~n.v4 THEN PortRejected
        ELSE IF isFree(n, n.eph) THEN [st |-> "ok", port |-> n.eph]
        ELSE [st |-> "ok", port |-> n.eph + 1]

\* dev.mjs:202.  Number(process.env.VITE_DEV_PORT ?? 3000), variable unset.
DefaultStartPort == 3000

\* dev.mjs:16.  The default of maxAttempts.
DefaultPortAttempts == 50

\* dev.mjs:204-205.
siteUrlOf(p) == << "http://localhost:" \o ToString(p) >>

\* Nothing listens on the loopback addresses; listen(0) hands out a port.
EphPorts == {49152}
QuietNet ==
    [busy4 |-> {}, busy6 |-> {}, v4 |-> TRUE, v6 |-> TRUE,
     eph |-> CHOOSE e \in EphPorts : TRUE]

\* No derivation has happened yet.
NoDerivation == [by |-> "none", rpc |-> NoValue, site |-> NoValue]

\* No file has been written by main() yet.
NoProvWrite == [done |-> FALSE, before |-> <<>>, after |-> <<>>]

\* dev.mjs:201-203 before findAvailablePort is called, on a quiet machine.
ProvInit ==
    /\ portAttempts = DefaultPortAttempts
    /\ port = PortUnset
    /\ lastRpcUrl = NoValue
    /\ provWrite = NoProvWrite
    /\ derived = NoDerivation
    /\ edits = 0

ProvIdle == ProvInit /\ net = QuietNet /\ procEnv = DefaultEnv

(***************************************************************************)
(* dev.mjs                                                                 *)
(***************************************************************************)

\* child.kill(signal): delivers the signal only while the child runs.
Kill(s, who, proc, sig) ==
    IF proc.st = "running" THEN [s EXCEPT ![who] = Append(@, sig)] ELSE s

\* dev.mjs:241-249.  spawn() of the helper, guarded by envEnsurerSpawned.
spawnEnsurerOnce_NoGuard(e) ==
    [envEnsurerSpawned |-> TRUE,
     convexEnvEnsurer |-> RunningChild,
     spawns |-> e.spawns + 1]

spawnEnsurerOnce(e) ==
    IF e.envEnsurerSpawned
    THEN e
    ELSE [envEnsurerSpawned |-> TRUE,
          convexEnvEnsurer |-> RunningChild,
          spawns |-> e.spawns + 1]

\* dev.mjs:267-272.  One SIGINT to each child; v and c are the handles of
\* vite and convex dev as they are when cleanExit runs.
cleanExit(s, v, c) ==
    LET s1 == Kill(s, "vite", v, "SIGINT")
        s2 == Kill(s1, "convex", c, "SIGINT")
    IN  Kill(s2, "ensurer", ens.convexEnvEnsurer, "SIGINT")

DevInit ==
    /\ pc = "start"
    /\ vite = NoChild
    /\ convexBg = NoChild
    /\ sent = [w \in {"vite", "convex", "ensurer"} |-> <<>>]
    /\ ens = [envEnsurerSpawned |-> FALSE, convexEnvEnsurer |-> NoChild, spawns |-> 0]
    /\ convexReady = FALSE
    /\ timer = "unset"
    /\ finished = FALSE
    /\ envWatcher = "none"
    /\ coordExit = NoCode
    /\ firstExit = NoExit
    /\ readyPrinted = FALSE
    /\ chunks = 0
    /\ interrupts = 0
    /\ priming = NoPriming

\* add-auth.ts:252-256.  Nothing of withConvexDevRunning has run yet.
AuthInit ==
    /\ apc = "init"
    /\ platform \in Platforms
    /\ child = NoChild
    /\ probe = "idle"
    /\ observer = "idle"
    /\ settledBy = "none"
    /\ polls = 0
    /\ fnCalled = FALSE
    /\ pending = "none"
    /\ stop = [i |-> 0, ret |-> FALSE]
    /\ kills = <<>>
    /\ waited = 0
    /\ atStop = NoChild
    /\ exitInWindow = FALSE
    /\ result = "none"

AuthIdle == AuthInit /\ platform = "posix"

\* add-auth.ts:124-128.  setEnvVars is about to check the first variable;
\* each variable is absent from the remote store or already there.
SyncInit ==
    /\ spc = "exists"
    /\ cur = 1
    /\ store \in [Names -> {"absent", "old"}]
    /\ attempt = 0
    /\ lastOutput = <<>>
    /\ hist = [n \in Names |-> <<>>]
    /\ listFailed = FALSE
    /\ varResult = [n \in Names |-> "none"]
    /\ raised = NoError

SyncIdle == SyncInit /\ store = [n \in Names |-> "absent"]

\* A tick slot: pc is idle, G1, G2, S1, S2, G3 or G4 (the await the call
\* is suspended at); needSite/needSecret are no, yes, or yesPresent when
\* the variable was present and its get command exited 0, and are kept
\* only until the set command they decide is done; i is setVar's loop
\* counter; haveSite is the first verification result.
IdleTick ==
    [pc |-> "idle", needSite |-> "no", needSecret |-> "no", i |-> 0,
     haveSite |-> FALSE, first |-> FALSE]

\* ensure-convex-env.mjs:82-163, 196-197.  main() awaits the first tick,
\* which awaits its first get command; interval is not initialised yet.
EnsInit ==
    /\ ephase = "first"
    /\ interval = "tdz"
    /\ stopped = FALSE
    /\ ticks = [k \in 1..MaxTicks |->
                  IF k = 1 THEN [IdleTick EXCEPT !.pc = "G1", !.first = TRUE]
                  ELSE IdleTick]
    /\ rstore \in [Names -> StoredValues]
    /\ helperExit = NoCode
    /\ overwritten = {}

EnsIdle == EnsInit /\ rstore = [n \in Names |-> "absent"]

\* No write to the environment file has happened yet.
NoWrite == [op |-> "none", key |-> <<>>, value |-> <<>>, before |-> <<>>]

\* The environment file before any write; texts are drawn by each Init.
FileInit ==
    /\ lastUp = NoWrite
    /\ ups = 0

FileIdle == FileInit /\ envFile = <<>>

\* add-auth.ts:297-299.  Nothing has been printed or read yet.
StreamInit ==
    /\ apos = 0
    /\ prev = 0
    /\ buffer = <<>>
    /\ lineLog = <<>>
    /\ dpos = 0
    /\ teed = <<>>

StreamIdle == StreamInit /\ stdoutText = <<>>

\* part_002: cmdNew has not been called.
NewInit ==
    /\ npc = "start"
    /\ choice = "none"
    /\ removed = FALSE
    /\ scaffolded = FALSE
    /\ authRan = FALSE
    /\ newExit = NoCode

NewIdle == NewInit /\ projectName = <<>> /\ typed = <<>> /\ dirExists = FALSE

\* No program is in the middle of an update of the file.
NoUpdate == [pc |-> "idle", snap |-> <<>>]

RaceIdle == rmw = [w \in {"auth", "dev"} |-> NoUpdate]

OthersIdle == StreamIdle /\ NewIdle /\ RaceIdle

InitDev ==
    DevInit /\ AuthIdle /\ SyncIdle /\ EnsIdle /\ FileIdle /\ ProvIdle /\ OthersIdle

\* dev.mjs:84-99 as a record of what was derived from what; the derivation
\* is skipped when process.env.CONVEX_SITE_URL is set.
devDerivation(contents, env) ==
    [by |-> IF truthy(env.CONVEX_SITE_URL) THEN "devEnv" ELSE "dev",
     rpc |-> convexRpcUrl(readLines(contents), env),
     site |-> convexSiteUrl(readLines(contents), env)]

\* dev.mjs:201-211 with dev.mjs:290-293.  The port, then the environment
\* file.  A rejected findAvailablePort rejects main(); the catch exits 1.
Provision_SiteUrlOnly ==
    /\ pc = "start"
    /\ LET r == findAvailablePort(net, DefaultStartPort, portAttempts)
       IN  /\ port' = r
           /\ IF r.st = "rejected"
              THEN /\ pc' = "exited"
                   /\ coordExit' = 1
                   /\ UNCHANGED <<envFile, provWrite, derived>>
              ELSE /\ pc' = "provisioned"
                   /\ envFile' = join(setVar(readLines(envFile), <<"SITE_URL">>,
                                             siteUrlOf(r.port)))
                   /\ provWrite' = [done |-> TRUE, before |-> envFile,
                                    after |-> envFile']
                   /\ derived' = devDerivation(envFile, procEnv)
                   /\ UNCHANGED coordExit
    /\ UNCHANGED <<authVars, syncVars, ensVars, others, lastUp, ups, net, portAttempts,
                   procEnv, lastRpcUrl, edits, vite, convexBg, sent, ens,
                   convexReady, timer, finished, envWatcher, firstExit,
                   readyPrinted, chunks, interrupts>>
    /\ UNCHANGED priming

Provision ==
    /\ pc = "start"
    /\ LET r == findAvailablePort(net, DefaultStartPort, portAttempts)
       IN  /\ port' = r
           /\ IF r.st = "rejected"
              THEN /\ pc' = "exited"
                   /\ coordExit' = 1
                   /\ UNCHANGED <<envFile, provWrite, derived>>
              ELSE /\ pc' = "provisioned"
                   /\ envFile' = updateEnvLocal(envFile, siteUrlOf(r.port), procEnv)
                   /\ provWrite' = [done |-> TRUE, before |-> envFile,
                                    after |-> envFile']
                   /\ derived' = devDerivation(envFile, procEnv)
                   /\ UNCHANGED coordExit
    /\ UNCHANGED <<authVars, syncVars, ensVars, others, lastUp, ups, net, portAttempts,
                   procEnv, lastRpcUrl, edits, vite, convexBg, sent, ens,
                   convexReady, timer, finished, envWatcher, firstExit,
                   readyPrinted, chunks, interrupts>>
    /\ UNCHANGED priming

\* dev.mjs:213-217 with dev.mjs:290-293.  The one-shot priming run.
\* A priming run that does not exit 0 (code null when a signal killed it)
\* rejects main(); the catch exits 1.
Prime_IgnoresExitCode ==
    /\ pc = "provisioned"
    /\ \E code \in ExitCodes \cup {NoCode} :
          /\ priming' = [st |-> "exited", exitCode |-> code]
          /\ pc' = "primed"
          /\ UNCHANGED coordExit
    /\ UNCHANGED <<notDev, vite, convexBg, sent, ens, convexReady, timer, finished,
                   envWatcher, firstExit, readyPrinted, chunks, interrupts>>

Prime ==
    /\ pc = "provisioned"
    /\ \E code \in ExitCodes \cup {NoCode} :
          /\ priming' = [st |-> "exited", exitCode |-> code]
          /\ IF code = 0
             THEN /\ pc' = "primed"
                  /\ UNCHANGED coordExit
             ELSE /\ pc' = "exited"
                  /\ coordExit' = 1
    /\ UNCHANGED <<notDev, vite, convexBg, sent, ens, convexReady, timer, finished,
                   envWatcher, firstExit, readyPrinted, chunks, interrupts>>

\* dev.mjs:219-287 up to the await, with dev.mjs:290-293.  The watcher is
\* registered first and remembers the VITE_CONVEX_URL line of the file.
\* spawn() either works, throws, or reports its failure in an 'error' event
\* on the next tick; no 'error' listener is installed, so that event is an
\* uncaught exception.  Both failures end the coordinator with code 1.
Launch ==
    /\ pc = "primed"
    /\ \E vr \in SpawnOutcomes, cr \in SpawnOutcomes :
          IF vr = "throw"
          THEN /\ envWatcher' = "open"
               /\ pc' = "exited"
               /\ coordExit' = 1
               /\ UNCHANGED <<vite, convexBg, timer>>
          ELSE /\ envWatcher' = "open"
               /\ vite' = IF vr = "ok" THEN RunningChild ELSE FailedChild
               /\ IF cr = "throw"
                  THEN /\ pc' = "exited"
                       /\ coordExit' = 1
                       /\ UNCHANGED <<convexBg, timer>>
                  ELSE /\ convexBg' = IF cr = "ok" THEN RunningChild ELSE FailedChild
                       /\ timer' = "armed"
                       /\ IF vr = "error" \/ cr = "error"
                          THEN /\ pc' = "exited"
                               /\ coordExit' = 1
                          ELSE /\ pc' = "waiting"
                               /\ UNCHANGED coordExit
    /\ lastRpcUrl' = getVar(readLines(envFile), <<"VITE_CONVEX_URL">>)
    /\ UNCHANGED <<authVars, syncVars, ensVars, others, fileVars, net, portAttempts, procEnv,
                   port, provWrite, derived, edits, sent, ens, convexReady,
                   finished, firstExit, readyPrinted, chunks, interrupts>>
    /\ UNCHANGED priming

Alive == pc \in {"waiting", "resolved"}

\* dev.mjs:250-259.  One stdout chunk; match says whether readyRegex
\* matches the text of this chunk.
handleConvexData ==
    /\ Alive
    /\ chunks < MaxChunks
    /\ chunks' = chunks + 1
    /\ \E match \in BOOLEAN :
          /\ readyPrinted' = (readyPrinted \/ match)
          /\ IF ~convexReady /\ match
             THEN /\ convexReady' = TRUE
                  /\ ens' = spawnEnsurerOnce(ens)
             ELSE UNCHANGED <<convexReady, ens>>
    /\ UNCHANGED <<notDev, pc, vite, convexBg, sent, timer, finished, envWatcher,
                   coordExit, firstExit, interrupts>>
    /\ UNCHANGED priming

\* dev.mjs:262-265.
FallbackTimer_NoSpawn ==
    /\ Alive
    /\ timer = "armed"
    /\ timer' = "fired"
    /\ UNCHANGED <<notDev, pc, vite, convexBg, sent, ens, convexReady, finished, envWatcher,
                   coordExit, firstExit, readyPrinted, chunks, interrupts>>
    /\ UNCHANGED priming

FallbackTimer ==
    /\ Alive
    /\ timer = "armed"
    /\ timer' = "fired"
    /\ ens' = IF ~ens.envEnsurerSpawned THEN spawnEnsurerOnce(ens) ELSE ens
    /\ UNCHANGED <<notDev, pc, vite, convexBg, sent, convexReady, finished, envWatcher,
                   coordExit, firstExit, readyPrinted, chunks, interrupts>>
    /\ UNCHANGED priming

\* dev.mjs:273-274.  SIGINT or SIGTERM delivered to the coordinator.
Interrupt ==
    /\ Alive
    /\ interrupts < MaxInterrupts
    /\ interrupts' = interrupts + 1
    /\ sent' = cleanExit(sent, vite, convexBg)
    /\ envWatcher' = "closed"
    /\ UNCHANGED <<notDev, pc, vite, convexBg, ens, convexReady, timer, finished,
                   coordExit, firstExit, readyPrinted, chunks>>
    /\ UNCHANGED priming

\* dev.mjs:277-287.  The 'exit' listener of either long-running child; the
\* child that emitted the event has exited by then.
done(v, c) ==
    IF finished
    THEN UNCHANGED <<finished, sent, envWatcher, pc>>
    ELSE /\ finished' = TRUE
         /\ sent' = cleanExit(sent, v, c)
         /\ envWatcher' = "closed"
         /\ pc' = "resolved"

ViteExit ==
    /\ Alive
    /\ vite.st = "running"
    /\ \E ev \in ExitEvents :
          /\ vite' = ExitedChild(ev[1], ev[2])
          /\ firstExit' = IF firstExit = NoExit
                          THEN [who |-> "vite", exitCode |-> ev[1], signalCode |-> ev[2]]
                          ELSE firstExit
          /\ done(ExitedChild(ev[1], ev[2]), convexBg)
    /\ UNCHANGED <<notDev, convexBg, ens, convexReady, timer, coordExit, readyPrinted,
                   chunks, interrupts>>
    /\ UNCHANGED priming

ConvexExit ==
    /\ Alive
    /\ convexBg.st = "running"
    /\ \E ev \in ExitEvents :
          /\ convexBg' = ExitedChild(ev[1], ev[2])
          /\ firstExit' = IF firstExit = NoExit
                          THEN [who |-> "convex", exitCode |-> ev[1], signalCode |-> ev[2]]
                          ELSE firstExit
          /\ done(vite, ExitedChild(ev[1], ev[2]))
    /\ UNCHANGED <<notDev, vite, ens, convexReady, timer, coordExit, readyPrinted,
                   chunks, interrupts>>
    /\ UNCHANGED priming

\* The helper process ends; dev.mjs never reads how.
EnsurerExit ==
    /\ Alive
    /\ ens.convexEnvEnsurer.st = "running"
    /\ ens' = [ens EXCEPT !.convexEnvEnsurer = ExitedChild(0, NoSignal)]
    /\ UNCHANGED <<notDev, pc, vite, convexBg, sent, convexReady, timer, finished,
                   envWatcher, coordExit, firstExit, readyPrinted, chunks, interrupts>>
    /\ UNCHANGED priming

\* main() has returned and nothing keeps the event loop alive: node exits
\* with process.exitCode, which dev.mjs never sets.
CoordinatorExit ==
    /\ pc = "resolved"
    /\ timer = "fired"
    /\ vite.st # "running"
    /\ convexBg.st # "running"
    /\ ens.convexEnvEnsurer.st # "running"
    /\ pc' = "exited"
    /\ coordExit' = 0
    /\ UNCHANGED <<notDev, vite, convexBg, sent, ens, convexReady, timer, finished,
                   envWatcher, firstExit, readyPrinted, chunks, interrupts>>
    /\ UNCHANGED priming

NextDev ==
    \/ Provision
    \/ Prime
    \/ Launch
    \/ handleConvexData
    \/ FallbackTimer
    \/ Interrupt
    \/ ViteExit
    \/ ConvexExit
    \/ EnsurerExit
    \/ CoordinatorExit

SpecDev == InitDev /\ [][NextDev]_vars

\* node runs a due timer of a live process.
FairSpecDev == SpecDev /\ WF_vars(FallbackTimer)

(***************************************************************************)
(* add-auth.ts: withConvexDevRunning, waitForTcpFromUrl,                   *)
(* observeConvexDevOutput, stopChildProcess                                *)
(***************************************************************************)

\* add-auth.ts:437, 440, 443.  The wait after each signal, in milliseconds.
StopWindowMs == 10000

\* add-auth.ts:436-445.  The signals stopChildProcess tries, in order.
Escalation_NoPlatformCheck(plat) == <<"SIGINT", "SIGTERM", "SIGKILL">>

Escalation(plat) ==
    IF plat = "win32"
    THEN <<"SIGTERM", "SIGKILL">>
    ELSE <<"SIGINT", "SIGTERM", "SIGKILL">>

\* add-auth.ts:424-434, 448-474.  tryKill: killProcessTree, then waitForExit.
\* onceExit resolves at once when exitCode is already set; otherwise the
\* call waits for an 'exit' event or for the window to elapse.
tryKill(c, i, now) ==
    [stop |-> [i |-> i, ret |-> c.exitCode # NoCode],
     kills |-> Append(kills, [sig |-> Escalation(platform)[i],
                              at |-> now,
                              exited |-> c.st = "exited",
                              afterExit |-> exitInWindow])]

\* add-auth.ts:419-439.  stopChildProcess up to its first await.
stopChildProcess(c) ==
    IF c.exitCode # NoCode
    THEN [stop |-> [i |-> 0, ret |-> TRUE], kills |-> kills]
    ELSE tryKill(c, 1, waited)

\* add-auth.ts:281-283.  The finally block: the try block ended with pend.
EnterFinally(pend, c) ==
    LET n == stopChildProcess(c)
    IN  /\ pending' = pend
        /\ atStop' = c
        /\ stop' = n.stop
        /\ kills' = n.kills
        /\ apc' = IF n.stop.ret THEN "done" ELSE "stopping"
        /\ result' = IF n.stop.ret THEN pend ELSE result

\* add-auth.ts:276-280.  Promise.all resolved: fn is invoked.
CallFn ==
    /\ apc' = "fn"
    /\ fnCalled' = TRUE

\* add-auth.ts:262-273.
AuthSpawn ==
    /\ apc = "init"
    /\ \E o \in SpawnOutcomes :
          CASE o = "ok" ->
                 /\ child' = RunningChild
                 /\ apc' = "awaiting"
                 /\ probe' = "polling"
                 /\ observer' = "pending"
                 /\ UNCHANGED result
            [] o = "throw" ->
                 /\ apc' = "done"
                 /\ result' = "SpawnFailed"
                 /\ UNCHANGED <<child, probe, observer>>
            [] o = "error" ->
                 /\ child' = FailedChild
                 /\ apc' = "crashed"
                 /\ UNCHANGED <<probe, observer, result>>
    /\ UNCHANGED <<notAuth, platform, settledBy, polls, fnCalled, pending, stop, kills,
                   waited, atStop, exitInWindow>>

\* add-auth.ts:386-398.  One iteration of the probe loop.
waitForTcpStep(c, timeUp, connected) ==
    IF timeUp THEN "timeout"
    ELSE IF c.exitCode # NoCode THEN "exitedEarly"
    ELSE IF connected THEN "ok"
    ELSE "polling"

ProbePoll ==
    /\ apc = "awaiting"
    /\ probe = "polling"
    /\ polls <= MaxPolls
    /\ polls' = polls + 1
    /\ \E timeUp \in (IF polls = MaxPolls THEN {TRUE} ELSE BOOLEAN),
          connected \in BOOLEAN :
          LET r == waitForTcpStep(child, timeUp, connected)
          IN  /\ probe' = r
              /\ CASE r \in {"timeout", "exitedEarly"} ->
                        /\ EnterFinally(r, child)
                        /\ UNCHANGED fnCalled
                   [] r = "ok" /\ observer # "pending" ->
                        /\ CallFn
                        /\ UNCHANGED <<pending, atStop, stop, kills, result>>
                   [] OTHER ->
                        UNCHANGED <<apc, fnCalled, pending, atStop, stop, kills, result>>
    /\ UNCHANGED <<notAuth, platform, settledBy, child, observer, waited, exitInWindow>>

\* add-auth.ts:296-304.  finish(value), called because of cause: the
\* promise takes the value only while the flag resolved is unset.
finish_NoLatch(value, cause) ==
    /\ observer' = value
    /\ settledBy' = cause

finish(value, cause) ==
    /\ observer' = IF observer = "pending" THEN value ELSE observer
    /\ settledBy' = IF observer = "pending" THEN cause ELSE settledBy

\* add-auth.ts:296-312.  A complete output line reaches handleLine.
ObserverLine ==
    /\ observer = "pending"
    /\ \E match \in BOOLEAN :
          IF match
          THEN /\ finish("ready", "line")
               /\ IF apc = "awaiting" /\ probe = "ok"
                  THEN CallFn
                  ELSE UNCHANGED <<apc, fnCalled>>
          ELSE UNCHANGED <<observer, settledBy, apc, fnCalled>>
    /\ UNCHANGED <<notAuth, platform, child, probe, polls, pending, stop, kills,
                   waited, atStop, exitInWindow, result>>

\* add-auth.ts:335.
ObserverTimeout_NeverFires ==
    /\ observer = "pending"
    /\ UNCHANGED vars

ObserverTimeout ==
    /\ observer = "pending"
    /\ finish("notReady", "timeout")
    /\ IF apc = "awaiting" /\ probe = "ok"
       THEN CallFn
       ELSE UNCHANGED <<apc, fnCalled>>
    /\ UNCHANGED <<notAuth, platform, child, probe, polls, pending, stop, kills,
                   waited, atStop, exitInWindow, result>>

\* The child ends; node sets exitCode or signalCode and emits 'exit'.
\* Listeners: add-auth.ts:331-332 (observer), add-auth.ts:471-473 (onceExit).
ChildExit ==
    /\ child.st = "running"
    /\ \E ev \in ExitEvents : child' = ExitedChild(ev[1], ev[2])
    /\ finish("notReady", "exit")
    /\ IF apc = "stopping"
       THEN /\ stop' = [stop EXCEPT !.ret = TRUE]
            /\ exitInWindow' = TRUE
            /\ apc' = "done"
            /\ result' = pending
            /\ UNCHANGED fnCalled
       ELSE /\ IF apc = "awaiting" /\ probe = "ok" /\ observer = "pending"
               THEN CallFn
               ELSE UNCHANGED <<apc, fnCalled>>
            /\ UNCHANGED <<stop, exitInWindow, result>>
    /\ UNCHANGED <<notAuth, platform, probe, polls, pending, kills, waited, atStop>>

\* add-auth.ts:280.  The callback returns or throws.
FnReturn ==
    /\ apc = "fn"
    /\ \E r \in {"ok", "SetFailed"} : EnterFinally(r, child)
    /\ UNCHANGED <<notAuth, platform, settledBy, child, probe, observer, polls, fnCalled,
                   waited, exitInWindow>>

\* add-auth.ts:424-445.  A wait window elapses without an 'exit' event.
StopWaitElapsed ==
    /\ apc = "stopping"
    /\ waited' = waited + StopWindowMs
    /\ LET n == IF stop.i < Len(Escalation(platform))
                THEN tryKill(child, stop.i + 1, waited')
                ELSE [stop |-> [stop EXCEPT !.ret = TRUE], kills |-> kills]
       IN  /\ stop' = n.stop
           /\ kills' = n.kills
           /\ apc' = IF n.stop.ret THEN "done" ELSE "stopping"
           /\ result' = IF n.stop.ret THEN pending ELSE result
    /\ UNCHANGED <<notAuth, platform, settledBy, child, probe, observer, polls, fnCalled,
                   pending, atStop, exitInWindow>>

NextAuth ==
    \/ AuthSpawn
    \/ ProbePoll
    \/ ObserverLine
    \/ ObserverTimeout
    \/ ChildExit
    \/ FnReturn
    \/ StopWaitElapsed

InitAuth ==
    DevInit /\ AuthInit /\ SyncIdle /\ EnsIdle /\ FileIdle /\ ProvIdle /\ OthersIdle

SpecAuth == InitAuth /\ [][NextAuth]_vars

(***************************************************************************)
(* add-auth.ts: setEnvVars, convexEnvVarExists, runConvexEnvSet            *)
(***************************************************************************)

\* add-auth.ts:160.
maxAttempts == 3

\* add-auth.ts:16-17, 189-191.
TRANSIENT_ENV_OUTPUT ==
    {"Environment variables have changed during push",
     "Hit an error while pushing",
     "Failed due to network error"}

isTransientConvexEnvOutput(output) ==
    \E i \in 1..Len(output) : output[i] \in TRANSIENT_ENV_OUTPUT

\* add-auth.ts:219-230.  runCapture resolves only on exit code 0.
runCapture(code) == IF code = 0 THEN "resolve" ELSE "reject"

\* add-auth.ts:225-228.  The error of a rejected runCapture carries
\* stderr || stdout of the command.
rejection(stdout, stderr) ==
    [kind |-> "CommandFailed", text |-> IF stderr # <<>> THEN stderr ELSE stdout]

\* add-auth.ts:170.  [stdout, stderr].filter(Boolean).join.
combined(stdout, stderr) == stdout \o stderr

\* add-auth.ts:184-186.  The error thrown after the loop; trim() leaves
\* the messages of the text as they are.
failedToSet(output) == [kind |-> "SetFailed", text |-> output]

\* What a failing convex env list command printed.
ListError == <<"env list failed">>

\* add-auth.ts:148-153.  env list prints one NAME=value line per variable
\* of the store; the test looks for the name as a whole word.
convexEnvVarExists(st, name) == name \in {n \in Names : st[n] # "absent"}

\* add-auth.ts:172-181.  What the loop does after re-checking existence.
afterRecheck_OffByOne(exists, output, att) ==
    IF exists THEN "return"
    ELSE IF ~isTransientConvexEnvOutput(output) \/ att >= maxAttempts - 1 THEN "throw"
    ELSE "retry"

afterRecheck(exists, output, att) ==
    IF exists THEN "return"
    ELSE IF ~isTransientConvexEnvOutput(output) \/ att = maxAttempts THEN "throw"
    ELSE "retry"

Name == VarOrder[cur]

\* add-auth.ts:129-145.  setEnvVars moves on to the next variable.
Advance ==
    IF cur < Len(VarOrder)
    THEN /\ cur' = cur + 1
         /\ spc' = "exists"
    ELSE /\ spc' = "done"
         /\ UNCHANGED cur

\* add-auth.ts:125-131, 139-143.  convexEnvVarExists before any set.
ExistsCheck ==
    /\ spc = "exists"
    /\ \E code \in {0, 1} :
          IF runCapture(code) = "reject"
          THEN /\ listFailed' = TRUE
               /\ varResult' = [varResult EXCEPT ![Name] = "CommandFailed"]
               /\ raised' = rejection(<<>>, ListError)
               /\ spc' = "done"
               /\ UNCHANGED <<cur, attempt>>
          ELSE /\ UNCHANGED <<listFailed, raised>>
               /\ IF convexEnvVarExists(store, Name)
                  THEN /\ varResult' = [varResult EXCEPT ![Name] = "skipped"]
                       /\ Advance
                       /\ UNCHANGED attempt
                  ELSE /\ spc' = "set"
                       /\ attempt' = 1
                       /\ UNCHANGED <<cur, varResult>>
    /\ UNCHANGED <<notSync, store, lastOutput, hist>>

\* add-auth.ts:163-170.  One convex env set command.  The command exits
\* with code, prints output, and leaves the variable present or not.
SetAttempt ==
    /\ spc = "set"
    /\ \E code \in {0, 1}, stdout \in CapturedStdout, stderr \in CapturedStderr,
          applied \in BOOLEAN :
          /\ hist' = [hist EXCEPT ![Name] =
                        Append(@, [code |-> code, stdout |-> stdout, stderr |-> stderr,
                                   output |-> combined(stdout, stderr),
                                   applied |-> applied])]
          /\ store' = IF applied THEN [store EXCEPT ![Name] = "new"] ELSE store
          /\ IF runCapture(code) = "reject"
             THEN /\ varResult' = [varResult EXCEPT ![Name] = "CommandFailed"]
                  /\ raised' = rejection(stdout, stderr)
                  /\ spc' = "done"
                  /\ UNCHANGED lastOutput
             ELSE /\ lastOutput' = combined(stdout, stderr)
                  /\ spc' = "recheck"
                  /\ UNCHANGED <<varResult, raised>>
    /\ UNCHANGED <<notSync, cur, attempt, listFailed>>

\* add-auth.ts:172-186.  Existence is re-checked; return, retry or throw.
Recheck ==
    /\ spc = "recheck"
    /\ \E code \in {0, 1} :
          IF runCapture(code) = "reject"
          THEN /\ listFailed' = TRUE
               /\ varResult' = [varResult EXCEPT ![Name] = "CommandFailed"]
               /\ raised' = rejection(<<>>, ListError)
               /\ spc' = "done"
               /\ UNCHANGED <<cur, attempt>>
          ELSE /\ UNCHANGED listFailed
               /\ LET d == afterRecheck(convexEnvVarExists(store, Name), lastOutput, attempt)
                  IN  CASE d = "return" ->
                             /\ varResult' = [varResult EXCEPT ![Name] = "ok"]
                             /\ Advance
                             /\ UNCHANGED <<attempt, raised>>
                        [] d = "throw" ->
                             /\ varResult' = [varResult EXCEPT ![Name] = "SetFailed"]
                             /\ raised' = failedToSet(lastOutput)
                             /\ spc' = "done"
                             /\ UNCHANGED <<cur, attempt>>
                        [] d = "retry" ->
                             /\ attempt' = attempt + 1
                             /\ spc' = "set"
                             /\ UNCHANGED <<cur, varResult, raised>>
    /\ UNCHANGED <<notSync, store, lastOutput, hist>>

NextSync ==
    \/ ExistsCheck
    \/ SetAttempt
    \/ Recheck

InitSync ==
    DevInit /\ AuthIdle /\ SyncInit /\ EnsIdle /\ FileIdle /\ ProvIdle /\ OthersIdle

SpecSync == InitSync /\ [][NextSync]_vars

(***************************************************************************)
(* ensure-convex-env.mjs: main, tick, getVarResult, setVar                 *)
(***************************************************************************)

\* ensure-convex-env.mjs:132.
MAX_TRIES == 5

\* ensure-convex-env.mjs:170, 174.  /not set|not found|error/i on stdout.
NotSetPattern(text) ==
    \E j \in 1..Len(text) : text[j] \in {"not set", "not found", "error"}

\* ensure-convex-env.mjs:138.  /RaceDetected|Environment variables have
\* changed during push/i on the combined output.
RacePattern(output) ==
    output \in {"RaceDetected", "Environment variables have changed during push"}

\* ensure-convex-env.mjs:126-128 with runCapture (33-47): the result of
\* convex env get for a variable holding v.  The command can fail; for an
\* absent variable it prints nothing or a not-found message.
GetResults(v) ==
    IF v = "absent"
    THEN {[code |-> 1, stdout |-> <<>>],
          [code |-> 0, stdout |-> <<>>],
          [code |-> 1, stdout |-> <<"not found">>]}
    ELSE {[code |-> 0, stdout |-> ValueText(v)],
          [code |-> 1, stdout |-> <<>>]}

\* ensure-convex-env.mjs:170, 174.  The condition under which tick sets
\* the variable.
needsSet(res) ==
    res.code # 0 \/ res.stdout = <<>> \/ NotSetPattern(res.stdout)

\* What tick records about a variable it checked: whether it will set it,
\* and whether it was present with a get command that exited 0.
Need(res, v) ==
    IF ~needsSet(res) THEN "no"
    ELSE IF v # "absent" /\ res.code = 0 THEN "yesPresent"
    ELSE "yes"

\* ensure-convex-env.mjs:184-185.
have(res) == res.code = 0 /\ res.stdout # <<>>

\* ensure-convex-env.mjs:163.  await getVarResult('SITE_URL') returns.
GetSite(k) ==
    /\ ephase # "exited"
    /\ ticks[k].pc = "G1"
    /\ \E res \in GetResults(rstore["SITE_URL"]) :
          ticks' = [ticks EXCEPT ![k].needSite = Need(res, rstore["SITE_URL"]),
                                 ![k].pc = "G2"]
    /\ UNCHANGED <<notEns, ephase, interval, stopped, rstore, helperExit, overwritten>>

\* ensure-convex-env.mjs:164-177.  await getVarResult('BETTER_AUTH_SECRET')
\* returns; tick goes on to the first set command it needs, if any.
GetSecret(k) ==
    /\ ephase # "exited"
    /\ ticks[k].pc = "G2"
    /\ \E res \in GetResults(rstore["BETTER_AUTH_SECRET"]) :
          LET need == Need(res, rstore["BETTER_AUTH_SECRET"])
          IN  ticks' = [ticks EXCEPT
                          ![k].needSecret = need,
                          ![k].i = 0,
                          ![k].pc = IF ticks[k].needSite # "no" THEN "S1"
                                    ELSE IF need # "no" THEN "S2"
                                    ELSE "G3"]
    /\ UNCHANGED <<notEns, ephase, interval, stopped, rstore, helperExit, overwritten>>

\* ensure-convex-env.mjs:133-146.  What setVar does with one command result.
setVarStep(code, output, i) ==
    IF code = 0 THEN "true"
    ELSE IF RacePattern(output)
         THEN (IF i + 1 < MAX_TRIES THEN "continue" ELSE "false")
         ELSE "false"

\* ensure-convex-env.mjs:130-147, 170-177.  One convex env set command of
\* setVar returns: it exited with code, printed output, and did or did not
\* store the value.
SetCmd(k) ==
    /\ ephase # "exited"
    /\ ticks[k].pc \in {"S1", "S2"}
    /\ LET name == IF ticks[k].pc = "S1" THEN "SITE_URL" ELSE "BETTER_AUTH_SECRET"
           need == IF ticks[k].pc = "S1" THEN ticks[k].needSite ELSE ticks[k].needSecret
       IN  \E code \in {0, 1}, output \in Outputs, applied \in BOOLEAN :
              /\ rstore' = IF applied THEN [rstore EXCEPT ![name] = "new"] ELSE rstore
              /\ overwritten' = IF need = "yesPresent"
                                THEN overwritten \cup {name}
                                ELSE overwritten
              /\ LET d == setVarStep(code, output, ticks[k].i)
                     next == IF ticks[k].pc = "S1" /\ ticks[k].needSecret # "no"
                             THEN "S2"
                             ELSE "G3"
                 IN  ticks' = [ticks EXCEPT ![k] =
                                 IF d = "continue"
                                 THEN [@ EXCEPT !.i = @ + 1]
                                 ELSE [@ EXCEPT !.i = 0,
                                                !.pc = next,
                                                !.needSite = "no",
                                                !.needSecret =
                                                   IF next = "S2" THEN @ ELSE "no"]]
    /\ UNCHANGED <<notEns, ephase, interval, stopped, helperExit>>

\* ensure-convex-env.mjs:182, 184.
VerifySite(k) ==
    /\ ephase # "exited"
    /\ ticks[k].pc = "G3"
    /\ \E res \in GetResults(rstore["SITE_URL"]) :
          ticks' = [ticks EXCEPT ![k].haveSite = have(res), ![k].pc = "G4"]
    /\ UNCHANGED <<notEns, ephase, interval, stopped, rstore, helperExit, overwritten>>

\* ensure-convex-env.mjs:183-198.  The last await of tick returns.  With
\* both variables verified, stopped is set and clearInterval(interval) is
\* evaluated: while interval is uninitialised that read throws, the catch
\* swallows it and process.exit is not reached.  When the first tick
\* returns, main creates the interval and installs the signal handlers.
VerifySecret(k) ==
    /\ ephase # "exited"
    /\ ticks[k].pc = "G4"
    /\ \E res \in GetResults(rstore["BETTER_AUTH_SECRET"]) :
          LET both == ticks[k].haveSite /\ have(res)
              exits == both /\ interval # "tdz"
          IN  /\ stopped' = (stopped \/ both)
              /\ ticks' = IF exits
                           THEN [j \in 1..MaxTicks |-> IdleTick]
                           ELSE [ticks EXCEPT ![k] = IdleTick]
              /\ IF exits
                 THEN /\ interval' = "cleared"
                      /\ ephase' = "exited"
                      /\ helperExit' = 0
                 ELSE /\ interval' = IF ticks[k].first THEN "set" ELSE interval
                      /\ ephase' = IF ticks[k].first THEN "polling" ELSE ephase
                      /\ UNCHANGED helperExit
    /\ UNCHANGED <<notEns, rstore, overwritten>>

\* ensure-convex-env.mjs:160-163, 198.  The interval fires: a new tick
\* starts in a free slot, and returns at once when stopped is set.
IntervalFire(k) ==
    /\ ephase = "polling"
    /\ interval = "set"
    /\ ticks[k].pc = "idle"
    /\ \A j \in 1..(k - 1) : ticks[j].pc # "idle"
    /\ ticks' = IF stopped THEN ticks ELSE [ticks EXCEPT ![k].pc = "G1"]
    /\ UNCHANGED <<notEns, ephase, interval, stopped, rstore, helperExit, overwritten>>

\* ensure-convex-env.mjs:200-205.  SIGINT or SIGTERM: cleanExit once the
\* handlers are installed, the default action (death) before that.  A
\* process that ends takes its pending tick calls with it.
HelperSignal ==
    /\ ephase # "exited"
    /\ IF ephase = "polling"
       THEN /\ stopped' = TRUE
            /\ interval' = "cleared"
            /\ UNCHANGED ephase
            /\ UNCHANGED ticks
       ELSE /\ ephase' = "exited"
            /\ ticks' = [j \in 1..MaxTicks |-> IdleTick]
            /\ UNCHANGED <<stopped, interval>>
    /\ UNCHANGED <<notEns, rstore, helperExit, overwritten>>

\* The interval is cleared and no tick is in flight: node exits with 0.
HelperDrained ==
    /\ ephase = "polling"
    /\ interval = "cleared"
    /\ \A k \in 1..MaxTicks : ticks[k].pc = "idle"
    /\ ephase' = "exited"
    /\ helperExit' = 0
    /\ UNCHANGED <<notEns, interval, stopped, ticks, rstore, overwritten>>

NextEns ==
    \/ \E k \in 1..MaxTicks : GetSite(k)
    \/ \E k \in 1..MaxTicks : GetSecret(k)
    \/ \E k \in 1..MaxTicks : SetCmd(k)
    \/ \E k \in 1..MaxTicks : VerifySite(k)
    \/ \E k \in 1..MaxTicks : VerifySecret(k)
    \/ \E k \in 1..MaxTicks : IntervalFire(k)
    \/ HelperSignal
    \/ HelperDrained

InitEns ==
    DevInit /\ AuthIdle /\ SyncIdle /\ EnsInit /\ FileIdle /\ ProvIdle /\ OthersIdle

SpecEns == InitEns /\ [][NextEns]_vars

(***************************************************************************)
(* The environment file under repeated writes                              *)
(***************************************************************************)

\* The tokens the initial file is made of, and the texts of bounded length.
FileAlphabet == {"SITE_URL", EQ, " ", CR, LF}

Texts(n) == UNION {[1..m -> FileAlphabet] : m \in 0..n}

UpsertKeys == {<<"SITE_URL">>, <<"VITE_CONVEX_SITE_URL">>}
UpsertValues == {<<>>, <<"http://localhost:3000">>}

\* dotenv.ts:21-42 applied to the file, as add-auth.ts:84-90 does.
Upsert ==
    /\ ups < MaxUpserts
    /\ \E k \in UpsertKeys, v \in UpsertValues :
          /\ envFile' = upsertDotenvVar(envFile, k, v)
          /\ lastUp' = [op |-> "upsert", key |-> k, value |-> v, before |-> envFile]
    /\ ups' = ups + 1
    /\ UNCHANGED notFile

\* dev.mjs:66-124 applied to the file, as dev.mjs:207 and dev.mjs:155 do.
UpdateEnvLocal ==
    /\ ups < MaxUpserts
    /\ \E appSiteUrl \in {<<"http://localhost:3000">>} :
          /\ envFile' = updateEnvLocal(envFile, appSiteUrl, DefaultEnv)
          /\ lastUp' = [op |-> "updateEnvLocal", key |-> <<"SITE_URL">>,
                        value |-> appSiteUrl, before |-> envFile]
    /\ ups' = ups + 1
    /\ UNCHANGED notFile

NextFile ==
    \/ Upsert
    \/ UpdateEnvLocal

InitFile ==
    /\ DevInit /\ AuthIdle /\ SyncIdle /\ EnsIdle /\ ProvIdle /\ OthersIdle
    /\ FileInit
    /\ envFile \in Texts(MaxFileLen)

SpecFile == InitFile /\ [][NextFile]_vars

(***************************************************************************)
(* findAvailablePort on its own                                            *)
(***************************************************************************)

\* The ports the candidate loop can look at, and one more.
PortWindow == DefaultStartPort..(DefaultStartPort + MaxPortAttempts)

\* Every combination of busy ports and address families; the port handed
\* out by listen(0) may be busy on the IPv6 loopback.
PortNets ==
    {[busy4 |-> b4, busy6 |-> b6 \cup x6, v4 |-> f4, v6 |-> f6, eph |-> e] :
        b4 \in SUBSET PortWindow, b6 \in SUBSET PortWindow,
        f4 \in BOOLEAN, f6 \in BOOLEAN,
        e \in EphPorts \cup {NoPort}, x6 \in {{}} \cup {{q} : q \in EphPorts}}

\* dev.mjs:16-64 applied to the machine's loopback state.
FindPort ==
    /\ port = PortUnset
    /\ port' = findAvailablePort(net, DefaultStartPort, portAttempts)
    /\ UNCHANGED <<devVars, authVars, syncVars, ensVars, others, fileVars, net,
                   portAttempts, procEnv, lastRpcUrl, provWrite, derived, edits>>

InitPort ==
    /\ DevInit /\ AuthIdle /\ SyncIdle /\ EnsIdle /\ FileIdle /\ OthersIdle
    /\ port = PortUnset
    /\ lastRpcUrl = NoValue
    /\ provWrite = NoProvWrite
    /\ derived = NoDerivation
    /\ edits = 0
    /\ procEnv = DefaultEnv
    /\ portAttempts \in 1..MaxPortAttempts
    /\ net \in PortNets

SpecPort == InitPort /\ [][FindPort]_vars

(***************************************************************************)
(* Provisioning of the environment file: dev.mjs main() and its watcher,   *)
(* add-auth.ts ensureDotEnvLocal()                                         *)
(***************************************************************************)

\* dev.mjs:46-49.  The candidates main() lets findAvailablePort look at.
Candidates == DefaultStartPort..(DefaultStartPort + DefaultPortAttempts - 1)

\* The machines provisioning is run on: quiet; the first two candidates
\* busy (on one address family, or one on each); every candidate busy, with
\* listen(0) failing, or handing out a free port, or one busy on IPv6.
ProvNets ==
    { QuietNet,
      [QuietNet EXCEPT !.busy4 = {DefaultStartPort, DefaultStartPort + 1}],
      [QuietNet EXCEPT !.busy4 = {DefaultStartPort},
                       !.busy6 = {DefaultStartPort + 1}],
      [QuietNet EXCEPT !.busy4 = Candidates, !.eph = NoPort],
      [QuietNet EXCEPT !.busy4 = Candidates],
      [QuietNet EXCEPT !.busy4 = Candidates, !.busy6 = EphPorts] }

\* The values VITE_CONVEX_URL takes in the file.
RpcTexts == {UrlText(u) : u \in UrlForms} \cup {NotAUrl}

\* A site URL somebody wrote into the file or the process environment.
ExplicitSiteUrl == <<"http://127.0.0.1:4000">>

\* The files provisioning starts from: empty, with an RPC URL, and with an
\* RPC URL and an explicit site URL.
ProvFiles ==
    {<<>>}
    \cup {<<"VITE_CONVEX_URL", EQ, r, LF>> : r \in RpcTexts}
    \cup {<<"VITE_CONVEX_URL", EQ, r, LF, "VITE_CONVEX_SITE_URL", EQ>>
             \o ExplicitSiteUrl \o <<LF>> : r \in RpcTexts}

ProvEnvs ==
    [VITE_CONVEX_URL : {NoValue, <<"http://127.0.0.1:3212">>},
     CONVEX_SITE_URL : {NoValue, ExplicitSiteUrl}]

\* What another program writes into the file while the session runs: the
\* backend tool moves to another deployment, or somebody pins the site URL.
EditKeys == {<<"VITE_CONVEX_URL">>, <<"VITE_CONVEX_SITE_URL">>}

EditValues(k) ==
    IF k = <<"VITE_CONVEX_URL">>
    THEN {<<"https://happy-animal-123.convex.cloud">>, <<"http://127.0.0.1:79">>}
    ELSE {ExplicitSiteUrl}

ExternalEdit ==
    /\ pc = "waiting"
    /\ edits < MaxEdits
    /\ edits' = edits + 1
    /\ \E k \in EditKeys :
          \E v \in EditValues(k) :
             envFile' = join(setVar(readLines(envFile), k, v)) \o <<LF>>
    /\ UNCHANGED <<devVars, authVars, syncVars, ensVars, others, lastUp, ups, net,
                   portAttempts, procEnv, port, lastRpcUrl, provWrite, derived>>

\* dev.mjs:129-163.  The debounced change handler of the watcher.
WatcherFire ==
    /\ envWatcher = "open"
    /\ pc \in {"waiting", "resolved"}
    /\ LET current == getVar(readLines(envFile), <<"VITE_CONVEX_URL">>)
       IN  /\ truthy(current)
           /\ current # lastRpcUrl
           /\ envFile' = updateEnvLocal(envFile, siteUrlOf(port.port), procEnv)
           /\ derived' = devDerivation(envFile, procEnv)
           /\ lastRpcUrl' = current
    /\ UNCHANGED <<devVars, authVars, syncVars, ensVars, others, lastUp, ups, net,
                   portAttempts, procEnv, port, provWrite, edits>>

\* add-auth.ts:43, 59-93.  The add-auth command provisions the same file;
\* it runs before a dev session is started.
authDerivation(raw) ==
    [by |-> IF parseDotenv(raw, <<"VITE_CONVEX_SITE_URL">>) # NoValue
            THEN "authExplicit" ELSE "auth",
     rpc |-> parseDotenv(raw, <<"VITE_CONVEX_URL">>),
     site |-> deriveConvexSiteUrl(parseDotenv(raw, <<"VITE_CONVEX_URL">>))]

EnsureDotEnvLocal ==
    /\ pc = "start"
    /\ ups < MaxUpserts
    /\ ups' = ups + 1
    /\ LET r == ensureDotEnvLocal(envFile)
       IN  /\ envFile' = r.next
           /\ lastUp' = [op |-> "ensureDotEnvLocal", key |-> <<"VITE_CONVEX_SITE_URL">>,
                         value |-> <<r.threw>>, before |-> envFile]
           /\ derived' = IF truthy(parseDotenv(envFile, <<"VITE_CONVEX_URL">>))
                         THEN authDerivation(envFile)
                         ELSE derived
    /\ UNCHANGED <<devVars, authVars, syncVars, ensVars, others, net, portAttempts,
                   procEnv, port, lastRpcUrl, provWrite, edits>>

NextProv ==
    \/ EnsureDotEnvLocal
    \/ Provision
    \/ Prime
    \/ Launch
    \/ ExternalEdit
    \/ WatcherFire

InitProv ==
    /\ DevInit /\ AuthIdle /\ SyncIdle /\ EnsIdle /\ OthersIdle
    /\ FileInit
    /\ ProvInit
    /\ net \in ProvNets
    /\ procEnv \in ProvEnvs
    /\ envFile \in ProvFiles

SpecProv == InitProv /\ [][NextProv]_vars

(***************************************************************************)
(* The backend's stdout and its readers: add-auth.ts                       *)
(* observeConvexDevOutput() and attachConvexDevStream(), dev.mjs           *)
(* handleConvexData()                                                      *)
(***************************************************************************)

\* add-auth.ts:18, dev.mjs:240.  The text the two ready patterns look for,
\* in two runs of characters, so that a chunk boundary or an escape
\* sequence can fall inside it.
Marker == <<"Convex functions ", "ready">>

\* Two terminal escape sequences: "green" and "hide the cursor".
SGR == "ESC[32m"
HideCursor == "ESC[?25l"
EscapeSequences == {SGR, HideCursor}

\* add-auth.ts:20.  ESC [ [0-9;]* [a-zA-Z]: the "?" of HideCursor is not in
\* the class [0-9;], so the pattern does not match it.
ANSI_ESCAPE_REGEX == {SGR}

\* add-auth.ts:373-375.
stripAnsi(value) == SelectSeq(value, LAMBDA tok : tok \notin ANSI_ESCAPE_REGEX)

\* add-auth.ts:18, dev.mjs:240.  RegExp.prototype.test: the marker occurs
\* somewhere in the text.
readyRegexTest(text) ==
    \E i \in 1..(Len(text) - 1) : text[i] = Marker[1] /\ text[i + 1] = Marker[2]

\* add-auth.ts:359.  replace(/\r\n/g, '\n').replace(/\r/g, '\n').
RECURSIVE normalizeEol(_)
normalizeEol(text) ==
    IF text = <<>> THEN <<>>
    ELSE IF Len(text) >= 2 /\ text[1] = CR /\ text[2] = LF
         THEN <<LF>> \o normalizeEol(SubSeq(text, 3, Len(text)))
    ELSE IF text[1] = CR THEN <<LF>> \o normalizeEol(Tail(text))
    ELSE <<text[1]>> \o normalizeEol(Tail(text))

\* add-auth.ts:355-367 without the filter on blank lines.
onData_NoBlankFilter(buf, chunk) ==
    LET parts == split(normalizeEol(buf \o chunk))
    IN  [buffer |-> parts[Len(parts)],
         lines |-> SubSeq(parts, 1, Len(parts) - 1)]

\* add-auth.ts:355-367.  What one 'data' event does to buffer.value, and
\* the lines it passes to onLine.  The text has no "\r" left when it is
\* split, so split('\n') is split.
onData(buf, chunk) ==
    LET parts == split(normalizeEol(buf \o chunk))
    IN  [buffer |-> parts[Len(parts)],
         lines |-> SelectSeq(SubSeq(parts, 1, Len(parts) - 1),
                             LAMBDA line : trim(line) # <<>>)]

\* add-auth.ts:307-312.  handleLine on each of the lines: does one match?
handleLine(passed) ==
    \E i \in 1..Len(passed) : readyRegexTest(stripAnsi(passed[i]))

\* add-auth.ts:355-367 with 296-312.  A chunk of the child's stdout reaches
\* the 'data' listener, which finish() removes once the promise is settled.
StdoutData ==
    /\ observer = "pending"
    /\ apos < Len(stdoutText)
    /\ \E k \in (apos + 1)..Len(stdoutText) :
          LET r == onData(buffer, SubSeq(stdoutText, apos + 1, k))
          IN  /\ prev' = apos
              /\ apos' = k
              /\ buffer' = r.buffer
              /\ lineLog' = lineLog \o r.lines
              /\ IF handleLine(r.lines)
                 THEN /\ finish("ready", "line")
                      /\ IF apc = "awaiting" /\ probe = "ok"
                         THEN CallFn
                         ELSE UNCHANGED <<apc, fnCalled>>
                 ELSE UNCHANGED <<observer, settledBy, apc, fnCalled>>
    /\ UNCHANGED <<devVars, syncVars, ensVars, fileVars, provVars, newVars,
                   raceVars, stdoutText, dpos, teed, platform, child, probe, polls,
                   pending, stop, kills, waited, atStop, exitInWindow, result>>

\* The two bytes of a character the backend prints in UTF-8 (U+00E9),
\* and the three bytes of the replacement character U+FFFD.  Every other
\* token of a text is a character of one byte.
LeadByte == "0xC3"
ContinuationByte == "0xA9"
ReplacementBytes == <<"0xEF", "0xBF", "0xBD">>

\* dev.mjs:251.  Buffer.prototype.toString(): UTF-8 decoding of the bytes
\* of one chunk; a lead byte without its continuation byte and a
\* continuation byte without its lead byte each decode to U+FFFD.
RECURSIVE toString(_)
toString(chunk) ==
    IF chunk = <<>> THEN <<>>
    ELSE IF chunk[1] = LeadByte /\ Len(chunk) >= 2 /\ chunk[2] = ContinuationByte
         THEN <<"U+00E9">> \o toString(SubSeq(chunk, 3, Len(chunk)))
    ELSE IF chunk[1] \in {LeadByte, ContinuationByte}
         THEN <<"U+FFFD">> \o toString(Tail(chunk))
    ELSE <<chunk[1]>> \o toString(Tail(chunk))

\* dev.mjs:252.  process.stdout.write(text) writes the text in UTF-8.
RECURSIVE write(_)
write(text) ==
    IF text = <<>> THEN <<>>
    ELSE (CASE text[1] = "U+00E9" -> <<LeadByte, ContinuationByte>>
            [] text[1] = "U+FFFD" -> ReplacementBytes
            [] OTHER -> <<text[1]>>) \o write(Tail(text))

\* dev.mjs:250-259 on the bytes of the chunk: they are decoded, the text
\* is written to the console and readyRegex is tested against it.
ConvexStdoutData ==
    /\ Alive
    /\ dpos < Len(stdoutText)
    /\ \E k \in (dpos + 1)..Len(stdoutText) :
          LET text == toString(SubSeq(stdoutText, dpos + 1, k))
              match == readyRegexTest(text)
          IN  /\ dpos' = k
              /\ teed' = teed \o write(text)
              /\ readyPrinted' = (readyPrinted \/ match)
              /\ IF ~convexReady /\ match
                 THEN /\ convexReady' = TRUE
                      /\ ens' = spawnEnsurerOnce(ens)
                 ELSE UNCHANGED <<convexReady, ens>>
    /\ UNCHANGED <<authVars, syncVars, ensVars, fileVars, provVars, newVars,
                   raceVars, stdoutText, apos, prev, buffer, lineLog, pc, vite,
                   convexBg, sent, timer, finished, envWatcher, coordExit,
                   firstExit, chunks, interrupts>>
    /\ UNCHANGED priming

NextStream ==
    \/ StdoutData
    \/ ConvexStdoutData

\* The characters the backend prints.
StreamAlphabet == {Marker[1], Marker[2], " ", CR, LF} \cup EscapeSequences

StdoutTexts == UNION {[1..m -> StreamAlphabet] : m \in 0..MaxOutLen}

\* dev.mjs:287.  main() awaits: provisioning on a quiet machine without an
\* environment file, the priming run and both spawns went well.
DevLaunched ==
    /\ pc = "waiting"
    /\ vite = RunningChild
    /\ convexBg = RunningChild
    /\ sent = [w \in {"vite", "convex", "ensurer"} |-> <<>>]
    /\ ens = [envEnsurerSpawned |-> FALSE, convexEnvEnsurer |-> NoChild, spawns |-> 0]
    /\ convexReady = FALSE
    /\ timer = "armed"
    /\ finished = FALSE
    /\ envWatcher = "open"
    /\ coordExit = NoCode
    /\ firstExit = NoExit
    /\ readyPrinted = FALSE
    /\ chunks = 0
    /\ interrupts = 0
    /\ priming = [st |-> "exited", exitCode |-> 0]
    /\ net = QuietNet
    /\ procEnv = DefaultEnv
    /\ portAttempts = DefaultPortAttempts
    /\ port = findAvailablePort(QuietNet, DefaultStartPort, DefaultPortAttempts)
    /\ envFile = updateEnvLocal(<<>>, siteUrlOf(DefaultStartPort), DefaultEnv)
    /\ provWrite = [done |-> TRUE, before |-> <<>>, after |-> envFile]
    /\ derived = devDerivation(<<>>, DefaultEnv)
    /\ lastRpcUrl = NoValue
    /\ edits = 0
    /\ lastUp = NoWrite
    /\ ups = 0

\* add-auth.ts:273-279.  withConvexDevRunning awaits the probe and the
\* observer of a child it has just spawned.
AuthAwaiting ==
    /\ apc = "awaiting"
    /\ platform = "posix"
    /\ child = RunningChild
    /\ probe = "polling"
    /\ observer = "pending"
    /\ settledBy = "none"
    /\ polls = 0
    /\ fnCalled = FALSE
    /\ pending = "none"
    /\ stop = [i |-> 0, ret |-> FALSE]
    /\ kills = <<>>
    /\ waited = 0
    /\ atStop = NoChild
    /\ exitInWindow = FALSE
    /\ result = "none"

InitStream ==
    /\ DevLaunched /\ AuthAwaiting /\ SyncIdle /\ EnsIdle /\ NewIdle /\ RaceIdle
    /\ StreamInit
    /\ stdoutText \in StdoutTexts

SpecStream == InitStream /\ [][NextStream]_vars

\* add-auth.ts:286-338.  Everything that can settle the observer: output
\* on the child's stdout, the child's exit and the observer's timer.
NextObserve ==
    \/ StdoutData
    \/ ChildExit
    \/ ObserverTimeout

\* node runs the due timer of add-auth.ts:335 unless finish() cleared it.
FairSpecObserve == InitStream /\ [][NextObserve]_vars /\ WF_vars(ObserverTimeout)

\* dev.mjs:250-260.  The stdout listener of dev.mjs alone, on the bytes the
\* backend prints.
NextTee == ConvexStdoutData

\* The bytes the backend prints: well-formed UTF-8.
TeeAlphabet == {"a", LF, LeadByte, ContinuationByte}

TeeTexts ==
    {t \in UNION {[1..m -> TeeAlphabet] : m \in 0..MaxOutLen} :
        \A i \in 1..Len(toString(t)) : toString(t)[i] # "U+FFFD"}

InitTee ==
    /\ DevLaunched /\ AuthAwaiting /\ SyncIdle /\ EnsIdle /\ NewIdle /\ RaceIdle
    /\ StreamInit
    /\ stdoutText \in TeeTexts

SpecTee == InitTee /\ [][NextTee]_vars

(***************************************************************************)
(* commands/new (src/unnamed/part_002) cmdNew(), projectName.ts           *)
(* sanitizeProjectName()                                                   *)
(***************************************************************************)

\* The characters of a project name as typed: a capital, a small letter,
\* a digit, a hyphen, a blank and a letter outside ASCII (e with an acute
\* accent, written by its code point).
NameAlphabet == {"A", "p", "1", "-", " ", "U+00E9"}

\* String.prototype.toLowerCase on a character.
toLowerCase(c) == IF c = "A" THEN "a" ELSE c

\* projectName.ts:3.  [a-z0-9-] with the flag i.
AllowedChars == {"a", "A", "p", "1", "-"}

\* projectName.ts:3.  replace(/[^a-z0-9-]/gi, '-').
replaceInvalid(name) ==
    [i \in 1..Len(name) |-> IF name[i] \in AllowedChars THEN name[i] ELSE "-"]

\* projectName.ts:4.  replace(/-+/g, '-').
RECURSIVE collapseHyphens(_)
collapseHyphens(name) ==
    IF Len(name) < 2 THEN name
    ELSE IF name[1] = "-" /\ name[2] = "-" THEN collapseHyphens(Tail(name))
    ELSE <<name[1]>> \o collapseHyphens(Tail(name))

\* projectName.ts:5.  replace(/^-|-$/g, ''): one hyphen at the start and
\* one at the end are taken away.
trimHyphens(name) ==
    LET a == IF name # <<>> /\ name[1] = "-" THEN Tail(name) ELSE name
    IN  IF a # <<>> /\ a[Len(a)] = "-" THEN SubSeq(a, 1, Len(a) - 1) ELSE a

\* projectName.ts:1-7 without the second replace.
sanitizeProjectName_NoCollapse(name) ==
    LET t == trimHyphens(replaceInvalid(name))
    IN  [i \in 1..Len(t) |-> toLowerCase(t[i])]

\* projectName.ts:1-7.
sanitizeProjectName(name) ==
    LET t == trimHyphens(collapseHyphens(replaceInvalid(name)))
    IN  [i \in 1..Len(t) |-> toLowerCase(t[i])]

\* What isCancel() recognises: the prompt was aborted.
CancelSymbol == <<"Symbol(clack:cancel)">>

\* What the name prompt of part_002:66-70 can return.
NameAnswers == {CancelSymbol, <<>>, <<"A", " ", "p">>}

\* What the prompt of part_002:93-100 can return.
Choices == {"overwrite", "cancel", "isCancel"}

\* part_002:62-92.  The name from the argument or the prompt, sanitized; then
\* the check whether the project directory exists.
Begin ==
    /\ npc = "start"
    /\ \E nameInput \in (IF typed = <<>> THEN NameAnswers ELSE {typed}) :
          /\ typed' = nameInput
          /\ IF nameInput \in {CancelSymbol, <<>>}
             THEN /\ npc' = "returned"
                  /\ UNCHANGED <<projectName, newExit>>
             ELSE /\ projectName' = sanitizeProjectName(nameInput)
                  /\ IF projectName' = <<>>
                     THEN /\ newExit' = 1
                          /\ npc' = "returned"
                     ELSE /\ npc' = IF dirExists THEN "select" ELSE "scaffold"
                          /\ UNCHANGED newExit
    /\ UNCHANGED <<devVars, authVars, syncVars, ensVars, fileVars, provVars,
                   streamVars, raceVars, dirExists, choice, removed, scaffolded,
                   authRan>>

\* part_002:93-105 where a choice of "cancel" goes on like "overwrite".
Select_CancelOverwrites ==
    /\ npc = "select"
    /\ \E c \in Choices, ok \in BOOLEAN :
          /\ choice' = c
          /\ IF c = "isCancel"
             THEN /\ npc' = "returned"
                  /\ UNCHANGED <<removed, dirExists, newExit>>
             ELSE /\ removed' = TRUE
                  /\ dirExists' = IF ok THEN FALSE ELSE dirExists
                  /\ npc' = IF ok THEN "scaffold" ELSE "returned"
                  /\ newExit' = IF ok THEN newExit ELSE 1
    /\ UNCHANGED <<devVars, authVars, syncVars, ensVars, fileVars, provVars,
                   streamVars, raceVars, projectName, typed, scaffolded, authRan>>

\* part_002:93-105.  The overwrite prompt, then removeDir.  A removeDir that
\* fails rejects cmdNew; main's catch sets the exit code.
Select ==
    /\ npc = "select"
    /\ \E c \in Choices, ok \in BOOLEAN :
          /\ choice' = c
          /\ IF c = "isCancel" \/ c = "cancel"
             THEN /\ npc' = "returned"
                  /\ UNCHANGED <<removed, dirExists, newExit>>
             ELSE /\ removed' = TRUE
                  /\ dirExists' = IF ok THEN FALSE ELSE dirExists
                  /\ npc' = IF ok THEN "scaffold" ELSE "returned"
                  /\ newExit' = IF ok THEN newExit ELSE 1
    /\ UNCHANGED <<devVars, authVars, syncVars, ensVars, fileVars, provVars,
                   streamVars, raceVars, projectName, typed, scaffolded, authRan>>

\* part_002:108-115.  npm create convex; run() rejects on a non-zero exit.
Scaffold ==
    /\ npc = "scaffold"
    /\ scaffolded' = TRUE
    /\ \E code \in ExitCodes :
          IF code = 0
          THEN /\ dirExists' = TRUE
               /\ npc' = "addAuth"
               /\ UNCHANGED newExit
          ELSE /\ npc' = "returned"
               /\ newExit' = 1
               /\ UNCHANGED dirExists
    /\ UNCHANGED <<devVars, authVars, syncVars, ensVars, fileVars, provVars,
                   streamVars, raceVars, projectName, typed, choice, removed,
                   authRan>>

\* part_002:117-118.
AddAuth ==
    /\ npc = "addAuth"
    /\ authRan' = TRUE
    /\ npc' = "returned"
    /\ \E ok \in BOOLEAN : newExit' = IF ok THEN newExit ELSE 1
    /\ UNCHANGED <<devVars, authVars, syncVars, ensVars, fileVars, provVars,
                   streamVars, raceVars, projectName, typed, dirExists, choice,
                   removed, scaffolded>>

NextNew ==
    \/ Begin
    \/ Select
    \/ Scaffold
    \/ AddAuth

\* The names given on the command line; the empty one is "no argument".
NameTexts == UNION {[1..m -> NameAlphabet] : m \in 0..MaxNameLen}

InitNew ==
    /\ DevInit /\ AuthIdle /\ SyncIdle /\ EnsIdle /\ FileIdle /\ ProvIdle
    /\ StreamIdle /\ RaceIdle
    /\ NewInit
    /\ typed \in NameTexts
    /\ projectName = typed
    /\ dirExists \in BOOLEAN

SpecNew == InitNew /\ [][NextNew]_vars

(***************************************************************************)
(* Two programs updating .env.local at the same time: the coordinator's    *)
(* updateEnvLocal() and add-auth.ts ensureDotEnvLocal()                    *)
(***************************************************************************)

\* add-auth.ts:67.  raw = await readTextFile(envPath).
AuthRead ==
    /\ rmw.auth.pc = "idle"
    /\ rmw' = [rmw EXCEPT !.auth = [pc |-> "read", snap |-> envFile]]
    /\ UNCHANGED <<devVars, authVars, syncVars, ensVars, fileVars, provVars,
                   streamVars, newVars>>

\* add-auth.ts:68-90 with fs.ts:30-37.  next is computed from raw;
\* writeTextFileIfChanged writes it unless the file already holds it.
AuthWrite ==
    /\ rmw.auth.pc = "read"
    /\ LET r == ensureDotEnvLocal(rmw.auth.snap)
       IN  /\ rmw' = [rmw EXCEPT !.auth.pc = IF r.threw = "no" THEN "done"
                                            ELSE "threw"]
           /\ envFile' = IF r.threw = "no" /\ envFile # r.next THEN r.next
                         ELSE envFile
    /\ UNCHANGED <<devVars, authVars, syncVars, ensVars, provVars, streamVars,
                   newVars, lastUp, ups>>

\* dev.mjs:68-75.  contents = fs.readFileSync(envPath).
DevRead ==
    /\ rmw.dev.pc = "idle"
    /\ rmw' = [rmw EXCEPT !.dev = [pc |-> "read", snap |-> envFile]]
    /\ UNCHANGED <<devVars, authVars, syncVars, ensVars, fileVars, provVars,
                   streamVars, newVars>>

\* dev.mjs:76-123.  fs.writeFileSync of the lines that were read, with the
\* two variables set.
DevWrite ==
    /\ rmw.dev.pc = "read"
    /\ rmw' = [rmw EXCEPT !.dev.pc = "done"]
    /\ envFile' = updateEnvLocal(rmw.dev.snap, siteUrlOf(DefaultStartPort), procEnv)
    /\ UNCHANGED <<devVars, authVars, syncVars, ensVars, provVars, streamVars,
                   newVars, lastUp, ups>>

NextRace ==
    \/ AuthRead
    \/ AuthWrite
    \/ DevRead
    \/ DevWrite

InitRace ==
    /\ DevInit /\ AuthIdle /\ SyncIdle /\ EnsIdle /\ ProvIdle
    /\ StreamIdle /\ NewIdle /\ RaceIdle
    /\ FileInit
    /\ envFile \in ProvFiles

SpecRace == InitRace /\ [][NextRace]_vars

(***************************************************************************)
(* Claims about dev.mjs                                                    *)
(***************************************************************************)

BothRunning == vite.st = "running" /\ convexBg.st = "running"

\* C1: the env-sync helper is spawned at most once per session, whatever
\* the order of ready-line chunks and the fallback timer.
C1_HelperSpawnedAtMostOnce == ens.spawns <= 1

\* Both triggers have fired and the helper exists exactly once.
C1_Witness == ens.spawns = 1 /\ convexReady /\ timer = "fired" /\ chunks = MaxChunks

\* C2: once both long-running processes are up, either the helper is
\* eventually spawned, or a process stopped running, or a ready line was
\* printed; with both running and no ready line the fallback timer spawns it.
C2_FallbackTimerSpawnsHelper ==
    (pc = "waiting") ~> (ens.envEnsurerSpawned \/ ~BothRunning \/ readyPrinted)

\* The timer, not a ready line, spawned the helper while both still run.
C2_Witness ==
    /\ ens.envEnsurerSpawned
    /\ BothRunning
    /\ ~readyPrinted
    /\ timer = "fired"

\* C3: when the backend exits first with code 1 and the app-server is still
\* running once the coordinator has handled that exit, the app-server has
\* been taken through interrupt, terminate and kill.
C3_EscalatesAfterBackendFailure ==
    (/\ firstExit.who = "convex"
     /\ firstExit.exitCode = 1
     /\ pc = "resolved"
     /\ vite.st = "running")
    => sent["vite"] = <<"SIGINT", "SIGTERM", "SIGKILL">>

\* C4: the coordinator's exit code is the non-zero exit code of the first
\* supervised process that exited.
C4_ExitCodeMirrorsFirstExit ==
    (/\ pc = "exited"
     /\ firstExit.who # "none"
     /\ firstExit.exitCode \in ExitCodes \ {0})
    => coordExit = firstExit.exitCode

\* C5: when the coordinator fails with an error, every supervised process it
\* had started has been sent a shutdown signal or is no longer running.
C5_ShutdownBeforeErrorPropagates ==
    (pc = "exited" /\ coordExit = 1)
    => /\ vite.st = "running" => sent["vite"] # <<>>
       /\ convexBg.st = "running" => sent["convex"] # <<>>

(***************************************************************************)
(* Claims about add-auth.ts                                                *)
(***************************************************************************)

IsPrefix(a, b) == Len(a) <= Len(b) /\ \A i \in 1..Len(a) : a[i] = b[i]

KillSignals == [i \in 1..Len(kills) |-> kills[i].sig]

C7_NoOpOnExitedProcess ==
    atStop.st = "exited" => (kills = <<>> /\ waited = 0 /\ (apc = "done" => stop.i = 0))

\* C11: a poll of waitForTcpFromUrl that finds the probed process exited,
\* with an exit code or by a signal, ends the probe with the exited-early
\* error (or with the timeout when the deadline has passed at that poll);
\* it neither keeps polling nor reports the port reachable.
C11_ProbeFailsFastOnExit ==
    [][(apc = "awaiting" /\ probe = "polling" /\ child.st = "exited"
          /\ polls' = polls + 1)
       => probe' \in {"exitedEarly", "timeout"}]_vars

(***************************************************************************)
(* Claims about setEnvVars and runConvexEnvSet                             *)
(***************************************************************************)

\* A set attempt that failed transiently: its output matches a transient
\* substring and the variable is still absent afterwards.
FailedTransiently(o) == isTransientConvexEnvOutput(o.output) /\ ~o.applied

\* runConvexEnvSet has settled for the variable n.
Settled(n) == varResult[n] \in {"ok", "SetFailed", "CommandFailed"}

AllButLast(h, P(_)) == \A i \in 1..(Len(h) - 1) : P(h[i])

\* C8: against a store that fails transiently n < maxAttempts times and
\* then succeeds, runConvexEnvSet succeeds with exactly n+1 set commands:
\* it succeeds when the attempt after n transient failures succeeds, and it
\* never gives up after fewer than maxAttempts transient failures.
C8_RetriesTransientFailures ==
    \A n \in Names :
       (Settled(n) /\ ~listFailed) =>
          /\ (/\ AllButLast(hist[n], FailedTransiently)
              /\ hist[n][Len(hist[n])].applied
              /\ hist[n][Len(hist[n])].code = 0)
             => varResult[n] = "ok"
          /\ ~(/\ Len(hist[n]) < 3
               /\ \A i \in 1..Len(hist[n]) : FailedTransiently(hist[n][i]))

\* The store the original C9 is about: every set command made for n exited
\* 0 and left the variable absent, and every env list command worked.
AlwaysAbsent(n) ==
    /\ Settled(n)
    /\ ~listFailed
    /\ \A i \in 1..Len(hist[n]) : hist[n][i].code = 0 /\ ~hist[n][i].applied

\* C9 as claimed: against such a store runConvexEnvSet fails with SetFailed,
\* and only after maxAttempts set attempts.
C9_Original ==
    \A n \in Names :
       AlwaysAbsent(n) => (varResult[n] = "SetFailed" /\ Len(hist[n]) = 3)

\* C9 as amended: against such a store runConvexEnvSet fails with SetFailed
\* after at most maxAttempts set attempts: after exactly maxAttempts when
\* the output of every attempt matches a transient-error substring, and
\* right after the first attempt whose output matches none.
C9_FailsWithSetFailed ==
    \A n \in Names :
       AlwaysAbsent(n) =>
          /\ varResult[n] = "SetFailed"
          /\ Len(hist[n]) \in 1..3
          /\ \A i \in 1..(Len(hist[n]) - 1) :
                isTransientConvexEnvOutput(hist[n][i].output)
          /\ Len(hist[n]) < 3 =>
                ~isTransientConvexEnvOutput(hist[n][Len(hist[n])].output)

\* Three set commands exited 0, the variable stayed absent, SetFailed.
C9_Witness ==
    \E n \in Names :
       /\ AlwaysAbsent(n)
       /\ Len(hist[n]) = 3
       /\ varResult[n] = "SetFailed"

(***************************************************************************)
(* Claims about ensure-convex-env.mjs                                      *)
(***************************************************************************)

\* C10: no set command is issued for a variable that was present in the
\* remote store when tick checked it (with a get command that exited 0).
C10_PresentNeverSet == overwritten = {}

(***************************************************************************)
(* Claims about the environment file                                       *)
(***************************************************************************)

\* C15: writing the same key and value a second time leaves the file
\* byte-identical, for upsertDotenvVar and for updateEnvLocal.
C15_UpsertIdempotent ==
    /\ lastUp.op = "upsert" =>
          upsertDotenvVar(envFile, lastUp.key, lastUp.value) = envFile
    /\ lastUp.op = "updateEnvLocal" =>
          updateEnvLocal(envFile, lastUp.value, DefaultEnv) = envFile

\* C16: after an upsert exactly one line of the file defines the key, and
\* no other key has two defining lines unless it had them before.
C16_KeysUnique ==
    lastUp.op = "upsert" =>
       /\ Cardinality(DefiningLines(envFile, lastUp.key)) = 1
       /\ \A k \in UpsertKeys \ {lastUp.key} :
             Cardinality(DefiningLines(envFile, k)) >= 2 =>
                Cardinality(DefiningLines(lastUp.before, k)) >= 2

\* C17: after a write the file ends with exactly one "\n".
EndsWithOneNewline(text) ==
    /\ text # <<>>
    /\ text[Len(text)] = LF
    /\ Len(text) >= 2 => text[Len(text) - 1] # LF

C17_OneTrailingNewline == lastUp.op # "none" => EndsWithOneNewline(envFile)

(***************************************************************************)
(* Claims about findAvailablePort and provisioning                         *)
(***************************************************************************)

\* A loopback bind on an existing address family reports the port in use.
Occupied(n, p) == (n.v4 /\ p \in n.busy4) \/ (n.v6 /\ p \in n.busy6)

FreeFrom(n, lo, hi) == {p \in lo..hi : ~Occupied(n, p)}

Least(S) == CHOOSE p \in S : \A q \in S : p <= q

\* The inputs of the end-to-end scenario: 3000 and 3001 occupied, 3002
\* free, and the RPC URL http://127.0.0.1:3212.
ScenarioInputs ==
    /\ Occupied(net, DefaultStartPort)
    /\ Occupied(net, DefaultStartPort + 1)
    /\ ~Occupied(net, DefaultStartPort + 2)
    /\ convexRpcUrl(<<>>, procEnv) = <<"http://127.0.0.1:3212">>

AnySpawned ==
    \/ vite # NoChild
    \/ convexBg # NoChild
    \/ pc \in {"primed", "waiting", "resolved"}

ScenarioWrite ==
    /\ AnySpawned => provWrite.done
    /\ (provWrite.done /\ provWrite.before = <<>>) =>
          /\ getVar(readLines(provWrite.after), <<"SITE_URL">>)
                = <<"http://localhost:3002">>
          /\ getVar(readLines(provWrite.after), <<"VITE_CONVEX_SITE_URL">>)
                = <<"http://127.0.0.1:3213">>

C13_FirstFreePort ==
    port.st # "unset" =>
       \A k \in 0..(portAttempts - 1) :
          LET lo == DefaultStartPort + k
              hi == DefaultStartPort + portAttempts - 1
          IN  ( /\ \A i \in 0..(k - 1) : Occupied(net, DefaultStartPort + i)
                /\ FreeFrom(net, lo, hi) # {} )
              => port = [st |-> "ok", port |-> Least(FreeFrom(net, lo, hi))]

\* Two candidates are skipped, one busy on each loopback address.
C13_Witness ==
    /\ port = [st |-> "ok", port |-> DefaultStartPort + 2]
    /\ DefaultStartPort \in net.busy4 /\ DefaultStartPort \notin net.busy6
    /\ DefaultStartPort + 1 \in net.busy6 /\ DefaultStartPort + 1 \notin net.busy4
    /\ net.v4 /\ net.v6
    /\ portAttempts = MaxPortAttempts

\* No candidate is free and listen(0) fails or hands out a port that is
\* not free either.
NoFreePort ==
    /\ \A c \in Candidates : Occupied(net, c)
    /\ net.eph = NoPort \/ Occupied(net, net.eph)

\* C14: when no free port is found, main() ends with a non-zero exit code,
\* the environment file is not written and nothing is spawned.
C14_PortExhaustedAborts ==
    (NoFreePort /\ pc # "start") =>
       /\ pc = "exited"
       /\ coordExit \notin {0, NoCode}
       /\ ~provWrite.done
       /\ vite = NoChild
       /\ convexBg = NoChild

\* C18: a provisioning step (dev.mjs main, its watcher, add-auth) that finds
\* an explicit VITE_CONVEX_SITE_URL in the file leaves its value unchanged.
C18_ExplicitSiteUrlKept ==
    [][(truthy(parseDotenv(envFile, <<"VITE_CONVEX_SITE_URL">>)) /\ edits' = edits)
       => parseDotenv(envFile', <<"VITE_CONVEX_SITE_URL">>)
             = parseDotenv(envFile, <<"VITE_CONVEX_SITE_URL">>)]_vars

\* The text of u with port p written out, without a trailing slash; when
\* p is the scheme's default port the text without a port says the same.
WithPort(u, p) ==
    { << UrlText([u EXCEPT !.port = p, !.slash = FALSE]) >> }
    \cup (IF p = getDefaultPort(u.scheme)
          THEN { << UrlText([u EXCEPT !.port = NoPort, !.slash = FALSE]) >> }
          ELSE {})

\* C19: the site URL derived from a local RPC URL is that URL with port
\* P+1, P being the explicit port or the scheme's default.
C19_LocalPortIncrement ==
    LET u == ParseUrl(derived.rpc)
    IN  (derived.by \in {"dev", "auth"} /\ u.ok /\ u.host = LocalHost)
        => derived.site \in WithPort(u, basePort(u) + 1)

\* C20: the site URL derived from a cloud-hosted RPC URL is that URL with
\* the host suffix replaced and the trailing slash dropped; the port is
\* not incremented.
C20_CloudSuffixReplaced ==
    LET u == ParseUrl(derived.rpc)
    IN  (derived.by \in {"dev", "auth"} /\ u.ok /\ u.host.suffix = ".convex.cloud")
        => derived.site
              = << UrlText([u EXCEPT !.host.suffix = ".convex.site",
                                     !.slash = FALSE]) >>

\* C21: a derivation from an RPC URL that new URL() rejects yields no
\* value: the derived site URL is absent, so none is written to the file.
C21_UnparseableYieldsAbsent ==
    (derived.by \in {"dev", "auth"} /\ ~ParseUrl(derived.rpc).ok)
       => derived.site = NoValue

(***************************************************************************)
(* Claims about the readers of the backend's stdout                        *)
(***************************************************************************)

\* The end of the first line of a text: the index of its "\n", of its "\r",
\* or of the "\n" of its "\r\n"; the length of a text without line ending.
FirstLineEnd(text) ==
    LET ends == {i \in 1..Len(text) : text[i] \in {CR, LF}}
        e == CHOOSE i \in ends : \A j \in ends : i <= j
    IN  IF ends = {} THEN Len(text)
        ELSE IF text[e] = CR /\ e < Len(text) /\ text[e + 1] = LF THEN e + 1
        ELSE e

\* A text cut after each of its line endings.
RECURSIVE WholeLines(_)
WholeLines(text) ==
    IF text = <<>> THEN <<>>
    ELSE <<SubSeq(text, 1, FirstLineEnd(text))>>
         \o WholeLines(SubSeq(text, FirstLineEnd(text) + 1, Len(text)))

\* The lines a 'data' listener with buffer buf passes on for these chunks.
RECURSIVE Feed(_, _)
Feed(buf, chunkSeq) ==
    IF chunkSeq = <<>> THEN <<>>
    ELSE onData(buf, Head(chunkSeq)).lines
         \o Feed(onData(buf, Head(chunkSeq)).buffer, Tail(chunkSeq))

\* C22: whatever the chunks were, the lines passed to onLine so far are
\* those passed on when the text received so far comes one whole line at
\* a time.
C22_ChunkBoundaryIndependent ==
    lineLog = Feed(<<>>, WholeLines(SubSeq(stdoutText, 1, apos)))

\* A chunk ended between the "\r" and the "\n" of a line ending and the
\* next one in the middle of a line: the listener was handed one line and
\* holds the rest.
C22_Witness ==
    /\ stdoutText = <<Marker[1], CR, LF, Marker[2]>>
    /\ prev = 2
    /\ apos = 4
    /\ lineLog = <<SubSeq(Marker, 1, 1)>>
    /\ buffer = SubSeq(Marker, 2, 2)

\* The complete lines of a text, CRLF, CR and LF ending a line.
CompleteLines(text) ==
    LET parts == split(normalizeEol(text))
    IN  SubSeq(parts, 1, Len(parts) - 1)

Unescaped(line) == SelectSeq(line, LAMBDA tok : tok \notin EscapeSequences)

\* Some complete line of the text shows the marker once its escape
\* sequences are taken out.
HasReadyLine(text) ==
    \E i \in 1..Len(CompleteLines(text)) :
       readyRegexTest(Unescaped(CompleteLines(text)[i]))

\* C23: a complete line that shows the marker with escape sequences in or
\* around it is recognised as the ready line, by the observer of add-auth
\* and by the coordinator.
C23_EscapedReadyLineRecognised ==
    /\ HasReadyLine(SubSeq(stdoutText, 1, apos)) => observer = "ready"
    /\ (dpos = Len(stdoutText) /\ HasReadyLine(stdoutText)) => convexReady

\* Some complete line of the text contains the marker as it is.
HasMarkerLine(text) ==
    \E i \in 1..Len(CompleteLines(text)) : readyRegexTest(CompleteLines(text)[i])

\* C24: when the coordinator has received all of an output that has a line
\* with the marker, convexReady is set, whatever the chunks were.
C24_LineBasedReadiness ==
    (dpos = Len(stdoutText) /\ HasMarkerLine(stdoutText)) => convexReady

(***************************************************************************)
(* Claims about cmdNew and sanitizeProjectName                             *)
(***************************************************************************)

\* C25: the directory is removed only after the answer "overwrite"; after
\* "cancel" or an aborted prompt cmdNew has returned, the directory is
\* still there and neither the scaffolding nor the add-auth step has run.
C25_DeleteOnlyAfterOverwrite ==
    /\ removed => choice = "overwrite"
    /\ choice \in {"cancel", "isCancel"} =>
          /\ npc = "returned"
          /\ dirExists
          /\ ~removed /\ ~scaffolded /\ ~authRan

\* The user chose to overwrite, the directory was removed and both steps ran.
C25_Witness ==
    /\ choice = "overwrite"
    /\ removed
    /\ scaffolded
    /\ authRan

\* Lowercase letters, digits and hyphens only, no two hyphens in a row,
\* no hyphen first or last.
WellFormedName(name) ==
    /\ \A i \in 1..Len(name) : name[i] \in {"a", "p", "1", "-"}
    /\ \A i \in 1..(Len(name) - 1) : ~(name[i] = "-" /\ name[i + 1] = "-")
    /\ name # <<>> => (name[1] # "-" /\ name[Len(name)] # "-")

\* C26: the sanitized name is well formed, and sanitizing it again gives
\* the same name.
C26_SanitizedNameWellFormed ==
    (npc # "start" /\ typed \notin {CancelSymbol, <<>>}) =>
       /\ projectName = sanitizeProjectName(typed)
       /\ WellFormedName(projectName)
       /\ sanitizeProjectName(projectName) = projectName

\* "A", blank, U+00E9, "p" given as the name became "a-p".
C26_Witness ==
    /\ typed = <<"A", " ", "U+00E9", "p">>
    /\ projectName = <<"a", "-", "p">>
    /\ npc # "start"

(***************************************************************************)
(* Claims about the coordinator's shutdown                                 *)
(***************************************************************************)

\* cleanExit has run: an interrupt was received or a child has exited.
ShutdownEntered == interrupts > 0 \/ finished

\* C27: once shutdown is entered the helper is not spawned any more and
\* the coordinator does not write the environment file any more.
C27_NothingAfterShutdown ==
    [][ShutdownEntered => (ens'.spawns = ens.spawns /\ envFile' = envFile)]_vars

(***************************************************************************)
(* Claims about concurrent updates of .env.local                           *)
(***************************************************************************)

\* C28: when the coordinator has set SITE_URL and add-auth has set
\* VITE_SITE_URL, in whatever order their reads and writes came, the file
\* defines both.
C28_DifferentKeysConverge ==
    (rmw.dev.pc = "done" /\ rmw.auth.pc = "done") =>
       /\ parseDotenv(envFile, <<"SITE_URL">>) = siteUrlOf(DefaultStartPort)
       /\ truthy(parseDotenv(envFile, <<"VITE_SITE_URL">>))

(***************************************************************************)
(* Claims about the readiness gate of withConvexDevRunning                 *)
(***************************************************************************)

\* C29: fn is invoked only when the probe has connected and the observer
\* was settled by a ready line or by its own timeout.
C29_SyncOnlyAfterReadiness ==
    fnCalled => (probe = "ok" /\ settledBy \in {"line", "timeout"})

(***************************************************************************)
(* Claims about the outcome of a set attempt                               *)
(***************************************************************************)

\* C30: whatever the exit code of the set command, runConvexEnvSet
\* succeeds when its last attempt left the variable present, and it gives
\* up after a transiently failed attempt only when that was attempt
\* number maxAttempts.
C30_OutcomeByRecheck ==
    \A n \in Names :
       (Settled(n) /\ ~listFailed /\ hist[n] # <<>>) =>
          LET last == hist[n][Len(hist[n])]
          IN  /\ last.applied => varResult[n] = "ok"
              /\ FailedTransiently(last) => Len(hist[n]) = maxAttempts

\* The last set attempt made for n left the variable absent, and either
\* its combined output matches no transient substring or it was attempt
\* number maxAttempts.
LastAttemptFatal(n) ==
    /\ hist[n] # <<>>
    /\ LET last == hist[n][Len(hist[n])]
       IN  /\ ~last.applied
           /\ \/ ~isTransientConvexEnvOutput(last.output)
              \/ Len(hist[n]) = maxAttempts

\* C31: once runConvexEnvSet has settled for a variable whose last set
\* attempt was fatal, it has failed, no earlier attempt was fatal (the
\* first fatal attempt was the last), and the error raised carries
\* the combined stdout and stderr of that attempt.
C31_FatalAttemptSurfacesOutput ==
    \A n \in Names :
       (Settled(n) /\ ~listFailed /\ LastAttemptFatal(n)) =>
          LET last == hist[n][Len(hist[n])]
          IN  /\ varResult[n] \in {"SetFailed", "CommandFailed"}
              /\ \A i \in 1..(Len(hist[n]) - 1) :
                    isTransientConvexEnvOutput(hist[n][i].output)
              /\ raised.text = last.output

(***************************************************************************)
(* Claims about the priming run of dev.mjs                                 *)
(***************************************************************************)

\* The watcher or a long-running process has been started.
Started == envWatcher # "none" \/ vite # NoChild \/ convexBg # NoChild

\* C32: the watcher and the two long-running processes are started only
\* after the priming run has exited with code 0; once the priming run has
\* exited with another code none of them is ever started and the
\* coordinator has exited with a non-zero code.
C32_StartedOnlyAfterPriming ==
    /\ Started => priming = [st |-> "exited", exitCode |-> 0]
    /\ (priming.st = "exited" /\ priming.exitCode # 0) =>
          (~Started /\ pc = "exited" /\ coordExit \notin {NoCode, 0})

\* The priming run exited 0 and both long-running processes run.
C32_Witness ==
    /\ priming = [st |-> "exited", exitCode |-> 0]
    /\ envWatcher = "open"
    /\ vite.st = "running"
    /\ convexBg.st = "running"

(***************************************************************************)
(* Claims about observeConvexDevOutput                                     *)
(***************************************************************************)

\* The promise of observeConvexDevOutput is settled.
ObserverSettled == observer \in {"ready", "notReady"}

\* C33: the observer is settled exactly when one of a matching line, the
\* child's exit and the timeout has settled it, with the value of that
\* event; once it is settled no step changes its value or what settled it.
C33_OneShotLatch ==
    /\ [](/\ ObserverSettled <=> settledBy \in {"line", "exit", "timeout"}
          /\ observer = "ready" <=> settledBy = "line")
    /\ [][ObserverSettled => (observer' = observer /\ settledBy' = settledBy)]_vars

\* A ready line settled the observer and the child exited afterwards.
C33_Witness ==
    /\ observer = "ready"
    /\ settledBy = "line"
    /\ child.st = "exited"

\* C34: a pending observer is eventually settled, whatever the child
\* prints, and when the timeout or the child's exit settles it the value is
\* not-ready.
C34_ObserverAlwaysSettles ==
    /\ (observer = "pending") ~> ObserverSettled
    /\ [](settledBy \in {"timeout", "exit"} => observer = "notReady")

\* The child printed the marker on a last line without a newline, the
\* listener holds it in its buffer, and the timeout settled the observer.
C34_Witness ==
    /\ stdoutText = Marker
    /\ apos = Len(stdoutText)
    /\ buffer = Marker
    /\ settledBy = "timeout"
    /\ observer = "notReady"
    /\ child.st = "running"

(***************************************************************************)
(* Claims about the forwarding of the backend's output                     *)
(***************************************************************************)

\* C35: what dev.mjs has written to its console is, byte for byte and in
\* order, what it has received from the backend's stdout.
C35_OutputForwardedUnmodified == teed = SubSeq(stdoutText, 1, dpos)

(***************************************************************************)
(* Claims about the ticks of ensure-convex-env.mjs                         *)
(***************************************************************************)

\* The ticks that have started and not returned yet.
InFlight == {k \in 1..MaxTicks : ticks[k].pc # "idle"}

\* The ticks awaiting a set command for BETTER_AUTH_SECRET, each with the
\* secret it generated at ensure-convex-env.mjs:176.
SettingSecret == {k \in 1..MaxTicks : ticks[k].pc = "S2"}

\* C36: at most one tick is in flight at any time, and so at most one set
\* command for BETTER_AUTH_SECRET.
C36_OneTickAtATime ==
    /\ Cardinality(InFlight) <= 1
    /\ Cardinality(SettingSecret) <= 1

\* A tick returns having verified both variables: it is the step of a
\* tick that sets the flag stopped (ensure-convex-env.mjs:186-187); the
\* signal handler sets the flag too, but ends no tick.
TickVerifiedBoth == ~stopped /\ stopped' /\ ticks' # ticks

\* C37: the step in which a tick verifies both variables ends the helper
\* with exit code 0.
C37_ExitsOnceVerified ==
    [][TickVerifiedBoth => (ephase' = "exited" /\ helperExit' = 0)]_vars

(***************************************************************************)
(* Claims about reading the file after an upsert                           *)
(***************************************************************************)

\* The keys parseDotenv finds in a file.
ParsedKeys(contents) ==
    {parseLine(split(contents)[i]).key : i \in 1..Len(split(contents))} \ {<<>>}

\* C38: after upsertDotenvVar(f, k, v) the file parses to v for k, and
\* every other key parses to what it parsed to in f.
C38_ReadAfterUpsert ==
    lastUp.op = "upsert" =>
       /\ parseDotenv(envFile, lastUp.key) = lastUp.value
       /\ \A k \in (ParsedKeys(lastUp.before) \cup ParsedKeys(envFile)) \ {lastUp.key} :
             parseDotenv(envFile, k) = parseDotenv(lastUp.before, k)

====
